---- MODULE Spec2Model ----
(***************************************************************************)
(* Session monitor of CodeCenter (src-tauri/src/monitor): session          *)
(* discovery, lock probing, status inference, the reconciliation pass      *)
(* instant_refresh, refresh_session, the watcher event handler and the     *)
(* monitor event channel, together with the external world they observe    *)
(* (lock files, transcripts, the clock).                                   *)
(***************************************************************************)
EXTENDS Integers, Sequences, FiniteSets, TLC

(* ------------------------------------------------------------------ *)
(* Bounds of the model                                                 *)
(* ------------------------------------------------------------------ *)

\* The clock stops advancing here (seconds).
MaxClock == 31

\* Scaled-down capacity of the mpsc channels (the code creates them with 100).
ChanCap == 2
\* Steps the world takes in the application model.
MaxWorldSteps == 3
\* Lines of a transcript given to detect() on its own, and the timestamps
\* they carry.
MaxLines == 3
MaxTs == 3
\* Steps the world takes while the command is called again and again.
LiveWorldSteps == 2

(* ------------------------------------------------------------------ *)
(* Program constants                                                   *)
(* ------------------------------------------------------------------ *)

\* Grace period of an Initializing session, in seconds.
InitGraceSecs == 30

\* detect() looks at the last five events.
DetectWindow == 5

(* ------------------------------------------------------------------ *)
(* Strings and paths                                                   *)
(* ------------------------------------------------------------------ *)

CharAt(s, i) == SubSeq(s, i, i)

\* str::to_lowercase on the alphabet of the model.
LowerChar(c) ==
    CASE c = "A" -> "a" [] c = "B" -> "b" [] c = "C" -> "c" [] c = "D" -> "d"
      [] c = "E" -> "e" [] c = "F" -> "f" [] c = "G" -> "g" [] c = "H" -> "h"
      [] c = "I" -> "i" [] c = "J" -> "j" [] c = "K" -> "k" [] c = "L" -> "l"
      [] c = "M" -> "m" [] c = "N" -> "n" [] c = "O" -> "o" [] c = "P" -> "p"
      [] c = "Q" -> "q" [] c = "R" -> "r" [] c = "S" -> "s" [] c = "T" -> "t"
      [] c = "U" -> "u" [] c = "V" -> "v" [] c = "W" -> "w" [] c = "X" -> "x"
      [] c = "Y" -> "y" [] c = "Z" -> "z"
      [] OTHER -> c

RECURSIVE ToLowercase(_)
ToLowercase(s) ==
    IF Len(s) = 0 THEN s
    ELSE LowerChar(CharAt(s, 1)) \o ToLowercase(SubSeq(s, 2, Len(s)))

RECURSIVE TrimEndSeparators(_)
TrimEndSeparators(s) ==
    IF Len(s) > 0 /\ CharAt(s, Len(s)) \in {"/", "\\"}
    THEN TrimEndSeparators(SubSeq(s, 1, Len(s) - 1))
    ELSE s

RECURSIVE ReplaceChar(_, _, _)
ReplaceChar(s, from, to) ==
    IF Len(s) = 0 THEN s
    ELSE (IF CharAt(s, 1) = from THEN to ELSE CharAt(s, 1))
         \o ReplaceChar(SubSeq(s, 2, Len(s)), from, to)

\* A normalization that keeps the letter case.
NormalizeKeepsCase(path) == ReplaceChar(TrimEndSeparators(path), "\\", "/")

\* normalize_path: lowercase, strip trailing separators, unify separators.
NormalizePath(path) == ReplaceChar(TrimEndSeparators(ToLowercase(path)), "\\", "/")

\* generate_session_id: "sess_" followed by the hash of "sess_" + normalized
\* path.  The 64-bit hash is modelled as injective: the identifier is the
\* normalized key itself behind the "sess_" prefix.
GenerateSessionId(project_path) == "sess_" \o NormalizePath(project_path)

\* An encoding that forgets the Windows separator.
EncodeOnlySlash(path) == ReplaceChar(path, "/", "-")

\* encode_project_path / decode_project_path of discovery.rs.
EncodeProjectPath(path) == ReplaceChar(ReplaceChar(path, "/", "-"), "\\", "-")

DecodeProjectPath(encoded) == ReplaceChar(encoded, "-", "/")

(* ------------------------------------------------------------------ *)
(* Session status and status inference                                 *)
(* ------------------------------------------------------------------ *)

Contains(text, indicator) ==
    \E i \in 1..(Len(text) - Len(indicator) + 1) :
        SubSeq(text, i, i + Len(indicator) - 1) = indicator

EndsWith(text, suffix) ==
    Len(text) >= Len(suffix)
    /\ SubSeq(text, Len(text) - Len(suffix) + 1, Len(text)) = suffix

\* The indicators of is_waiting_for_input.  A character outside ASCII is
\* written \uXXXX, with its code point in lower-case hexadecimal digits.
WaitingIndicators ==
    {"\\u8bf7\\u786e\\u8ba4", "\\u8bf7\\u8f93\\u5165", "\\u8bf7\\u9009\\u62e9",
     "\\u662f\\u5426\\u7ee7\\u7eed", "\\u786e\\u5b9a\\u8981",
     "Would you like", "Please confirm", "Enter your", "Choose one",
     "Do you want", "yes/no", "Y/n",
     "\\u7ee7\\u7eed\\u5417", "\\u786e\\u8ba4\\u5417", "?", "\\uff1f"}

\* A test that lowercases the text first.
IsWaitingIgnoringCase(text) ==
    \E ind \in WaitingIndicators : Contains(ToLowercase(text), ToLowercase(ind))

IsWaitingForInput(text) == \E ind \in WaitingIndicators : Contains(text, ind)

\* The indicators of is_blocked.
BlockedIndicators ==
    {"error", "\\u9519\\u8bef", "permission denied", "\\u6743\\u9650\\u62d2\\u7edd",
     "timeout", "\\u8d85\\u65f6", "failed", "\\u5931\\u8d25",
     "unable to", "\\u65e0\\u6cd5", "cannot", "\\u4e0d\\u80fd"}

\* A test that leaves the letter case of the text alone.
IsBlockedKeepsCase(text) == \E ind \in BlockedIndicators : Contains(text, ind)

IsBlocked(text) == \E ind \in BlockedIndicators : Contains(ToLowercase(text), ind)

\* An analysis that looks for the failure keywords before the waiting ones.
AnalyzeBlockedFirst(event) ==
    IF ~event.has_content THEN "Unknown"
    ELSE IF event.tool_use THEN "Running"
    ELSE IF IsBlocked(event.text) THEN "Blocked"
    ELSE IF IsWaitingForInput(event.text) THEN "WaitingInput"
    ELSE "Running"

\* analyze_assistant_response on an event whose content blocks are summarised
\* as: has a tool_use block, and the concatenated text of its text blocks.
AnalyzeAssistantResponse(event) ==
    IF ~event.has_content THEN "Unknown"
    ELSE IF event.tool_use THEN "Running"
    ELSE IF IsWaitingForInput(event.text) THEN "WaitingInput"
    ELSE IF IsBlocked(event.text) THEN "Blocked"
    ELSE IF EndsWith(event.text, "?") \/ Contains(event.text, "Would you like")
         THEN "WaitingInput"
    ELSE "Running"

\* An inference whose error arm forgets the tool_error records.
InferWithoutToolError(last_event) ==
    CASE last_event.type = "user" -> "Running"
      [] last_event.type = "assistant" -> AnalyzeAssistantResponse(last_event)
      [] last_event.type \in {"queue-operation", "file-history-snapshot"} -> "Running"
      [] last_event.type = "error" -> "Blocked"
      [] last_event.type = "summary" -> "WaitingInput"
      [] OTHER -> "Unknown"

InferFromEvent(last_event) ==
    CASE last_event.type = "user" -> "Running"
      [] last_event.type = "assistant" -> AnalyzeAssistantResponse(last_event)
      [] last_event.type \in {"queue-operation", "file-history-snapshot"} -> "Running"
      [] last_event.type \in {"error", "tool_error"} -> "Blocked"
      [] last_event.type = "summary" -> "WaitingInput"
      [] OTHER -> "Unknown"

\* A transcript is a sequence of lines; a line is a record
\* [ok, type, ts, has_content, tool_use, text], ok = FALSE for a line that
\* does not parse as a LogEvent.
ParsedLines(lines) == SelectSeq(lines, LAMBDA l : l.ok)

\* Stable insertion of e into a sequence sorted by ts (sort_by is stable).
RECURSIVE InsertByTs(_, _)
InsertByTs(sorted, e) ==
    IF sorted = <<>> THEN <<e>>
    ELSE IF sorted[Len(sorted)].ts <= e.ts THEN Append(sorted, e)
    ELSE Append(InsertByTs(SubSeq(sorted, 1, Len(sorted) - 1), e), sorted[Len(sorted)])

RECURSIVE SortByTs(_)
SortByTs(events) ==
    IF events = <<>> THEN <<>>
    ELSE InsertByTs(SortByTs(SubSeq(events, 1, Len(events) - 1)), events[Len(events)])

\* read_last_events: parse, sort by timestamp, keep the last count events.
ReadLastEvents(lines, count) ==
    LET events == SortByTs(ParsedLines(lines))
    IN  IF Len(events) > count
        THEN SubSeq(events, Len(events) - count + 1, Len(events))
        ELSE events

\* StatusDetector::detect on the content of a transcript file.
Detect(lines) ==
    LET events == ReadLastEvents(lines, DetectWindow)
    IN  IF events = <<>> THEN "Unknown" ELSE InferFromEvent(events[Len(events)])

\* std::fs::read_to_string on a transcript: the read fails when the file holds
\* bytes that are not UTF-8 (field utf8 of a line), and gives the lines
\* otherwise.
ReadToString(lines) ==
    [ok |-> \A i \in 1..Len(lines) : lines[i].utf8, content |-> lines]

\* detect() with its Result: the `?` on read_to_string in read_last_events and
\* the `?` on read_last_events in detect hand the read error to the caller.
DetectResult(lines) ==
    LET file == ReadToString(lines)
    IN  IF ~file.ok THEN [ok |-> FALSE, status |-> ""]
        ELSE [ok |-> TRUE, status |-> Detect(file.content)]

(* ------------------------------------------------------------------ *)
(* State                                                               *)
(* ------------------------------------------------------------------ *)

VARIABLES
    \* --- the observed world ---
    lockWs,        \* lock file stem -> the workspace folder its content lists (fixed)
    lockFiles,     \* lock file stem -> [present, held, pid_alive]
    logs,          \* log directory name -> [present, fresh, lines] of its latest transcript
    now,           \* wall clock, seconds
    budget,        \* steps the world may still take (negative: no limit)
    \* --- the watcher (watcher.rs) ---
    watchOn,       \* the lock directory is being watched (LogWatcher::initialize ran)
    watched,       \* log directories whose transcript is in watched_paths
    watchQ,        \* the WatchEvent channel, watcher -> event handler
    parseTasks,    \* spawned parse_lock_file_for_discovery tasks, by lock file stem
    \* --- the monitor (monitor/mod.rs) ---
    sessions,      \* SessionMonitor.sessions: id -> [status, created_at, project_path]
    status_cache,  \* SessionMonitor.status_cache: id -> status
    running,       \* SessionMonitor.running
    chan,          \* the MonitorEvent channels: 1 made by new(), 2 by take_event_stream()
    selfChan,      \* the channel SessionMonitor.event_sender/event_receiver belong to
    consumerChan,  \* the channel whose receiver main.rs forwards from (0: none yet)
    monLock,       \* AppState.monitor RwLock: [writer, readers]
    mapLock,       \* the sessions RwLock is write-held by instant_refresh
    \* --- tasks ---
    main,          \* the task main.rs spawns: start, take_event_stream, forward
    ir,            \* the get_all_sessions command running instant_refresh
    rs,            \* refresh_status commands: process -> locals of refresh_all
    h,             \* the event handler task of spawn_event_handler
    \* --- history, read by the properties only ---
    lastSent,      \* the MonitorEvent sent by the last step, its channel and sender
    live,          \* ids whose last lifecycle event was SessionDiscovered
    inferred,      \* log directory -> result of the last status inference on its transcript
    calm,          \* passes begun since the last external change (capped at 2)
    expired,       \* ids removed by the Initializing timeout, no external change since
    \* --- one operation taken alone ---
    probe,         \* a contention probe on a lock file: [pc, fn, file, holds, result]
    storage,       \* the persisted session index: a set of [id, status, is_archived]
    call           \* a function applied on its own: [fn, pc, its arguments and results]

vars == <<lockWs, lockFiles, logs, now, budget, watchOn, watched, watchQ, parseTasks,
          sessions, status_cache, running, chan, selfChan, consumerChan,
          monLock, mapLock, main, ir, rs, h, lastSent, live, inferred, calm, expired,
          probe, storage, call>>

envVars == <<lockWs, lockFiles, logs, now, budget>>
watchVars == <<watchOn, watched, watchQ, parseTasks>>
\* The variables the application's tasks below do not touch.
unitVars == <<probe, storage, call>>

(* ------------------------------------------------------------------ *)
(* Generic helpers                                                     *)
(* ------------------------------------------------------------------ *)

\* All orders in which a directory listing may return the members of S.
RECURSIVE Orders(_)
Orders(S) ==
    IF S = {} THEN {<<>>}
    ELSE UNION {{<<x>> \o o : o \in Orders(S \ {x})} : x \in S}

\* HashMap::insert / HashMap::remove on a function.
MapInsert(m, k, v) == [x \in DOMAIN m \cup {k} |-> IF x = k THEN v ELSE m[x]]

MapRemove(m, k) == [x \in DOMAIN m \ {k} |-> m[x]]

EmptyMap == [x \in {} |-> x]

(* ------------------------------------------------------------------ *)
(* The observed world                                                  *)
(* ------------------------------------------------------------------ *)

NoLockFile == [present |-> FALSE, held |-> FALSE, pid_alive |-> FALSE]

\* A lock file on disk: some process may hold its flock, and the PID written
\* in it may or may not be alive.
LockFileStates ==
    {NoLockFile} \cup
    [present : {TRUE}, held : BOOLEAN, pid_alive : BOOLEAN]

UserLine == [ok |-> TRUE, type |-> "user", ts |-> 1, has_content |-> TRUE,
             tool_use |-> FALSE, text |-> "go"]

SummaryLine == [ok |-> TRUE, type |-> "summary", ts |-> 2, has_content |-> FALSE,
                tool_use |-> FALSE, text |-> ""]

\* Contents a transcript takes: the agent of workspace /a has answered a
\* prompt or not, the one of workspace /b has only been given a prompt.
TranscriptSet(dir) ==
    IF dir = "-a" THEN {<<UserLine>>, <<UserLine, SummaryLine>>} ELSE {<<UserLine>>}

\* fresh: modified within the last 30 minutes (discover_project_logs).
NoLog == [present |-> FALSE, fresh |-> FALSE, lines |-> <<>>]

PresentLocks == {f \in DOMAIN lockFiles : lockFiles[f].present}

LockOrders == Orders(PresentLocks)

\* The file stem of the transcript in a log directory (the agent's session
\* UUID): what LogWatcher::extract_session_id_from_log returns for it.
TranscriptStem(dir) == "uuid" \o dir

\* The content of the latest transcript of a directory, as read_to_string
\* returns it (a missing file reads as no events).
LinesOf(dir) == IF dir \in DOMAIN logs /\ logs[dir].present THEN logs[dir].lines ELSE <<>>

HasLogFile(dir) == dir \in DOMAIN logs /\ logs[dir].present

(* ------------------------------------------------------------------ *)
(* Session discovery (discovery.rs)                                    *)
(* ------------------------------------------------------------------ *)

\* find_log_file(project_path).ok(), as the DiscoveredSession fields.
FindLogFile(project_path) ==
    LET dir == EncodeProjectPath(project_path)
    IN  IF HasLogFile(dir) THEN [has_log |-> TRUE, log_dir |-> dir]
        ELSE [has_log |-> FALSE, log_dir |-> ""]

\* parse_lock_file for a lock file that exists and parses; pid 1 stands for
\* the (non-zero) PID written in the file.  has_start: start_time is Some(t),
\* t a past instant (the process start, or the transcript's modification
\* time), which the model takes to be the origin 0 of its clock.
ParseLockFile(f) ==
    LET log == FindLogFile(lockWs[f])
    IN  [pid |-> 1, project_path |-> lockWs[f],
         has_log |-> log.has_log, log_dir |-> log.log_dir, has_start |-> TRUE]

\* process_exists(lock.pid)
ProcessExists(f) == lockFiles[f].pid_alive

\* discover_from_lock_files, for a directory listing in the given order.
DiscoverFromLockFiles(order) ==
    LET alive == SelectSeq(order, LAMBDA f : lockFiles[f].present /\ ProcessExists(f))
    IN  [i \in DOMAIN alive |-> ParseLockFile(alive[i])]

\* discover_project_logs for one directory that has a fresh transcript.
DiscoverProjectLogs(dir) ==
    [pid |-> 0, project_path |-> DecodeProjectPath(dir),
     has_log |-> TRUE, log_dir |-> dir, has_start |-> TRUE]

DiscoverFromLogs ==
    {DiscoverProjectLogs(dir) : dir \in {d \in DOMAIN logs : logs[d].present /\ logs[d].fresh}}

\* PathBuf equality and hashing go by components: a trailing '/' does not
\* count, letter case does, and a backslash is an ordinary character (unix).
RECURSIVE PathBufKey(_)
PathBufKey(path) ==
    IF Len(path) > 1 /\ CharAt(path, Len(path)) = "/"
    THEN PathBufKey(SubSeq(path, 1, Len(path) - 1))
    ELSE path

\* The key of the HashMap<PathBuf, DiscoveredSession> of discover_sessions.
DiscoveryKey(path) == PathBufKey(path)

\* The outcome of each of the two scans: Err, or Ok with its records.
LockScan(order, fails) ==
    IF fails THEN [ok |-> FALSE, sessions |-> <<>>]
    ELSE [ok |-> TRUE, sessions |-> DiscoverFromLockFiles(order)]

LogScan(fails) ==
    IF fails THEN [ok |-> FALSE, sessions |-> {}]
    ELSE [ok |-> TRUE, sessions |-> DiscoverFromLogs]

\* A merge in which the log-derived record replaces the lock-derived one.
MergeLogReplaces(ls, log_sessions) ==
    LET logKeys == {DiscoveryKey(r.project_path) : r \in log_sessions}
    IN  log_sessions
        \cup {ls[i] : i \in {j \in DOMAIN ls : DiscoveryKey(ls[j].project_path) \notin logKeys}}

\* The two insertion loops of discover_sessions: the lock-derived records by
\* key (a later record replaces an earlier one), then the log-derived ones,
\* which only fill a missing log path of a record already there.
MergeDiscovered(ls, log_sessions) ==
    LET lockKeys == {DiscoveryKey(ls[i].project_path) : i \in DOMAIN ls}
        lastFor(k) ==
            ls[CHOOSE i \in DOMAIN ls :
                 /\ DiscoveryKey(ls[i].project_path) = k
                 /\ \A j \in DOMAIN ls : DiscoveryKey(ls[j].project_path) = k => j <= i]
        merged(k) ==
            LET e == lastFor(k)
                fromLog == {r \in log_sessions : DiscoveryKey(r.project_path) = k}
            IN  IF ~e.has_log /\ fromLog # {}
                THEN [e EXCEPT !.has_log = TRUE,
                               !.log_dir = (CHOOSE r \in fromLog : TRUE).log_dir]
                ELSE e
    IN  {merged(k) : k \in lockKeys}
        \cup {r \in log_sessions : DiscoveryKey(r.project_path) \notin lockKeys}

\* A discovery that gives up when one of its scans fails.
DiscoverSessionsOrFail(lock_scan, log_scan) ==
    IF lock_scan.ok /\ log_scan.ok
    THEN [ok |-> TRUE, sessions |-> MergeDiscovered(lock_scan.sessions, log_scan.sessions)]
    ELSE [ok |-> FALSE, sessions |-> {}]

\* discover_sessions on the outcomes of its two scans: a failed scan is
\* logged and contributes nothing, and the function returns Ok.
DiscoverSessionsFrom(lock_scan, log_scan) ==
    [ok |-> TRUE,
     sessions |-> MergeDiscovered(IF lock_scan.ok THEN lock_scan.sessions ELSE <<>>,
                                  IF log_scan.ok THEN log_scan.sessions ELSE {})]

\* discover_sessions when both scans succeed.
DiscoverSessions(order) ==
    DiscoverSessionsFrom(LockScan(order, FALSE), LogScan(FALSE)).sessions

(* ------------------------------------------------------------------ *)
(* Lock probes (monitor/mod.rs)                                        *)
(* ------------------------------------------------------------------ *)

\* is_lock_busy: a missing file is not busy; a non-blocking flock that fails
\* means the lock is held.
IsLockBusy(f) == lockFiles[f].present /\ lockFiles[f].held

\* scan_all_locks: normalized workspace -> busy, a later lock file of the
\* listing overwriting an earlier one for the same workspace.
ScanAllLocks(order) ==
    LET keys == {NormalizePath(lockWs[order[i]]) : i \in DOMAIN order}
        lastIdx(k) ==
            CHOOSE i \in DOMAIN order :
                /\ NormalizePath(lockWs[order[i]]) = k
                /\ \A j \in DOMAIN order : NormalizePath(lockWs[order[j]]) = k => j <= i
    IN  [k \in keys |-> IsLockBusy(order[lastIdx(k)])]

\* lock_snapshot.get(&project_key).cloned().unwrap_or(false)
SnapshotSaysAlive(lock_snapshot, project_key) ==
    IF project_key \in DOMAIN lock_snapshot THEN lock_snapshot[project_key] ELSE FALSE

\* A verification that answers from the snapshot the pass took at its start.
VerifyFromSnapshot(project_path, order) ==
    SnapshotSaysAlive(ir.lock_snapshot, NormalizePath(project_path))

\* verify_project_lock_realtime: the first lock file of the listing that
\* names the workspace decides; none found means false.
VerifyProjectLockRealtime(project_path, order) ==
    LET project_key == NormalizePath(project_path)
        hits == {i \in DOMAIN order : NormalizePath(lockWs[order[i]]) = project_key}
    IN  IF hits = {} THEN FALSE
        ELSE IsLockBusy(order[CHOOSE i \in hits : \A j \in hits : i <= j])

\* The three-valued outcome of the contention probe the states above stand
\* for: Alive (held), Dead (file there, lock free), NotFound (no lock file
\* names the workspace).
ProbeOutcome(project_path, order) ==
    LET project_key == NormalizePath(project_path)
        hits == {i \in DOMAIN order : NormalizePath(lockWs[order[i]]) = project_key}
    IN  IF hits = {} THEN "NotFound"
        ELSE IF IsLockBusy(order[CHOOSE i \in hits : \A j \in hits : i <= j])
             THEN "Alive" ELSE "Dead"

(* ------------------------------------------------------------------ *)
(* Events and channels                                                 *)
(* ------------------------------------------------------------------ *)

NoEvent == [kind |-> "None", id |-> "", old |-> "", new |-> ""]

\* MonitorEvent::SessionDiscovered { session }: new carries session.status.
SessionDiscoveredEv(id, status) ==
    [kind |-> "SessionDiscovered", id |-> id, old |-> "", new |-> status]

StatusChangedEv(id, old_status, new_status) ==
    [kind |-> "StatusChanged", id |-> id, old |-> old_status, new |-> new_status]

SessionEndedEv(id) == [kind |-> "SessionEnded", id |-> id, old |-> "", new |-> ""]

\* MonitorEvent::Error { message }
ErrorEv == [kind |-> "Error", id |-> "", old |-> "", new |-> ""]

NoSend == [ev |-> NoEvent, chan |-> 0, by |-> "", was_live |-> FALSE]

HasRoom(q) == Len(q) < ChanCap

\* Sender::try_send: the event is dropped when the channel is full.
TrySend(q, ev) == IF HasRoom(q) THEN Append(q, ev) ELSE q

\* event_sender.send(ev).await completing on channel c, with the history.
Send(ev, c, by) ==
    /\ HasRoom(chan[c])
    /\ chan' = [chan EXCEPT ![c] = Append(@, ev)]
    /\ lastSent' = [ev |-> ev, chan |-> c, by |-> by, was_live |-> ev.id \in live]
    /\ live' = CASE ev.kind = "SessionDiscovered" -> live \cup {ev.id}
                 [] ev.kind = "SessionEnded" -> live \ {ev.id}
                 [] OTHER -> live

\* A step that sends no monitor event.
NoneSent == lastSent' = NoSend /\ live' = live /\ chan' = chan

\* A step of the world, or of a task other than the reconciliation pass.
Disturb == calm' = 0 /\ expired' = {}

\* The world takes one of the steps it has left.
WorldStep == budget # 0 /\ budget' = IF budget > 0 THEN budget - 1 ELSE budget

WatchDiscovered(f) ==
    [kind |-> "SessionDiscovered", session_id |-> "", dir |-> "",
     project_path |-> lockWs[f]]

WatchLogChanged(dir) ==
    [kind |-> "LogChanged", session_id |-> TranscriptStem(dir), dir |-> dir,
     project_path |-> ""]

\* extract_session_id_from_lock: the file stem of the lock file.
WatchSessionEnded(f) ==
    [kind |-> "SessionEnded", session_id |-> f, dir |-> "", project_path |-> ""]

\* WatchEvent::Error { message }
WatchError ==
    [kind |-> "Error", session_id |-> "", dir |-> "", project_path |-> ""]

(* ------------------------------------------------------------------ *)
(* The world's steps and the watcher's callback                        *)
(* ------------------------------------------------------------------ *)

\* A lock file is created, removed, locked or unlocked, or its process
\* starts or exits.  handle_notify_event: a created lock file spawns a parse
\* task, a removed one try_sends SessionEnded with the file stem.
LockChange(f) ==
    /\ \E new \in LockFileStates \ {lockFiles[f]} :
        /\ lockFiles' = [lockFiles EXCEPT ![f] = new]
        /\ parseTasks' = IF watchOn /\ ~lockFiles[f].present /\ new.present
                         THEN parseTasks \cup {f} ELSE parseTasks
        /\ watchQ' = IF watchOn /\ lockFiles[f].present /\ ~new.present
                     THEN TrySend(watchQ, WatchSessionEnded(f)) ELSE watchQ
    /\ WorldStep
    /\ NoneSent /\ Disturb
    /\ UNCHANGED <<inferred, lockWs, unitVars, logs, now, watchOn, watched, sessions, status_cache,
                   running, selfChan, consumerChan, monLock, mapLock, main, ir, rs, h>>

\* The spawned task of the Create branch: parse_lock_file_for_discovery, then
\* a blocking send of SessionDiscovered; nothing is sent if the file is gone.
ParseTask(f) ==
    /\ f \in parseTasks
    /\ lockFiles[f].present => HasRoom(watchQ)
    /\ parseTasks' = parseTasks \ {f}
    /\ watchQ' = IF lockFiles[f].present THEN Append(watchQ, WatchDiscovered(f)) ELSE watchQ
    /\ NoneSent /\ Disturb
    /\ UNCHANGED <<inferred, envVars, unitVars, watchOn, watched, sessions, status_cache, running,
                   selfChan, consumerChan, monLock, mapLock, main, ir, rs, h>>

\* The agent writes its transcript (created or modified): the file is fresh;
\* a watched transcript makes the callback try_send LogChanged.
LogWrite(dir) ==
    /\ \E lines \in TranscriptSet(dir) :
        logs' = [logs EXCEPT ![dir] = [present |-> TRUE, fresh |-> TRUE, lines |-> lines]]
    /\ watchQ' = IF dir \in watched THEN TrySend(watchQ, WatchLogChanged(dir)) ELSE watchQ
    /\ WorldStep
    /\ NoneSent /\ Disturb
    /\ UNCHANGED <<inferred, lockWs, unitVars, lockFiles, now, watchOn, watched, parseTasks, sessions,
                   status_cache, running, selfChan, consumerChan, monLock, mapLock,
                   main, ir, rs, h>>

\* Thirty minutes pass without a write to the transcript.
LogAge(dir) ==
    /\ logs[dir].present /\ logs[dir].fresh
    /\ logs' = [logs EXCEPT ![dir].fresh = FALSE]
    /\ WorldStep
    /\ NoneSent /\ Disturb
    /\ UNCHANGED <<inferred, lockWs, unitVars, lockFiles, now, watchVars, sessions, status_cache, running,
                   selfChan, consumerChan, monLock, mapLock, main, ir, rs, h>>

\* The transcript is deleted; the Remove branch of the callback only handles
\* lock files.
LogDelete(dir) ==
    /\ logs[dir].present
    /\ logs' = [logs EXCEPT ![dir] = NoLog]
    /\ WorldStep
    /\ NoneSent /\ Disturb
    /\ UNCHANGED <<inferred, lockWs, unitVars, lockFiles, now, watchVars, sessions, status_cache, running,
                   selfChan, consumerChan, monLock, mapLock, main, ir, rs, h>>

\* A callback that awaits room in the watcher's channel before it returns.
WatchFaultAwaits ==
    /\ watchOn
    /\ HasRoom(watchQ)
    /\ watchQ' = Append(watchQ, WatchError)
    /\ WorldStep
    /\ NoneSent /\ Disturb
    /\ UNCHANGED <<inferred, lockWs, unitVars, lockFiles, logs, now, watchOn, watched,
                   parseTasks, sessions, status_cache, running, selfChan, consumerChan,
                   monLock, mapLock, main, ir, rs, h>>

\* notify hands the callback an error instead of an event: the callback
\* try_sends WatchEvent::Error.
WatchFault ==
    /\ watchOn
    /\ watchQ' = TrySend(watchQ, WatchError)
    /\ WorldStep
    /\ NoneSent /\ Disturb
    /\ UNCHANGED <<inferred, lockWs, unitVars, lockFiles, logs, now, watchOn, watched,
                   parseTasks, sessions, status_cache, running, selfChan, consumerChan,
                   monLock, mapLock, main, ir, rs, h>>

\* Time passes: exactly the grace period, or one second more.
Tick ==
    /\ \E d \in {InitGraceSecs, InitGraceSecs + 1} :
        /\ now + d <= MaxClock
        /\ now' = now + d
    /\ NoneSent
    /\ calm' = 0
    /\ UNCHANGED <<inferred, lockWs, unitVars, lockFiles, logs, budget, watchVars, sessions, status_cache, running,
                   selfChan, consumerChan, monLock, mapLock, main, ir, rs, h, expired>>

(* ------------------------------------------------------------------ *)
(* SessionMonitor: conversion and the reconciliation pass              *)
(* ------------------------------------------------------------------ *)

\* convert_discovered_to_session at instant t: the status is inferred from
\* the transcript when the record has a log path, else Unknown.
ConvertDiscoveredToSession(disc, t) ==
    [status |-> IF disc.has_log THEN Detect(LinesOf(disc.log_dir)) ELSE "Unknown",
     created_at |-> IF disc.has_start THEN 0 ELSE t,
     project_path |-> disc.project_path]

\* instant_refresh, new session: the status comes from the lock snapshot.
InitialStatus(snapshot_says_alive) ==
    IF snapshot_says_alive THEN "Running" ELSE "Initializing"

\* A grace period that ends when the age reaches InitGraceSecs.
KeepUntilGraceReached(status, uptime) ==
    CASE status = "Initializing" -> ~(uptime >= InitGraceSecs)
      [] status = "Running" -> FALSE
      [] OTHER -> TRUE

\* instant_refresh, known session whose real-time probe says the lock is not
\* held: does the session stay in current_round_ids?
KeepWhenNotAlive(status, uptime) ==
    CASE status = "Initializing" -> ~(uptime > InitGraceSecs)
      [] status = "Running" -> FALSE
      [] OTHER -> TRUE

\* A pass that leaves an Initializing session as it is when its lock is held.
NeverPromoted(status) == FALSE

\* instant_refresh, known session whose real-time probe says the lock is
\* held: is the session promoted to Running?
NeedsPromotion(status) == status = "Initializing"

\* A clean-up that spares the sessions still Initializing.
SweepSparesInitializing(map, current_round_ids) ==
    {id \in DOMAIN map : id \notin current_round_ids /\ map[id].status # "Initializing"}

\* instant_refresh, clean-up: the ids sessions.retain drops.
SweepRemoved(map, current_round_ids) ==
    {id \in DOMAIN map : id \notin current_round_ids}

\* A command's sessions filtered as no filter at all.
AllSessions(list) == list

\* get_all_sessions: `.filter(|s| s.status != SessionStatus::Unknown)`.
FilteredSessions(list) == {s \in list : s.status # "Unknown"}

\* Storage::get_active_sessions: the persisted sessions that are not archived.
StorageActiveSessions ==
    {[id |-> s.id, status |-> s.status] : s \in {x \in storage : ~x.is_archived}}

\* What get_all_sessions returns once instant_refresh has returned Ok: the
\* values of the live map (monitor.get_active_sessions) filtered, or the
\* storage's sessions when nothing is left.
GetAllSessions ==
    LET active == {[id |-> id, status |-> sessions[id].status] : id \in DOMAIN sessions}
        filtered_sessions == FilteredSessions(active)
    IN  IF filtered_sessions = {} THEN StorageActiveSessions ELSE filtered_sessions

IrIdle ==
    [pc |-> "idle", now |-> 0, lock_snapshot |-> EmptyMap, todo |-> {},
     current_round_ids |-> {}, to_remove |-> {}, pending |-> NoEvent, reply |-> {},
     \* history of the pass, read by the properties only
     start_map |-> EmptyMap, cands |-> {}, seen |-> EmptyMap, log |-> <<>>]

MonLockFree == monLock.writer = "none" /\ monLock.readers = {}

\* get_all_sessions takes the monitor write lock and calls instant_refresh:
\* now is read, then scan_all_locks takes the lock snapshot.
IrBegin ==
    /\ ir.pc = "idle"
    /\ MonLockFree
    /\ monLock' = [monLock EXCEPT !.writer = "ir"]
    /\ \E order \in LockOrders :
        ir' = [IrIdle EXCEPT !.pc = "discover", !.now = now,
                             !.lock_snapshot = ScanAllLocks(order),
                             !.start_map = sessions]
    /\ calm' = IF calm < 2 THEN calm + 1 ELSE calm
    /\ NoneSent
    /\ UNCHANGED <<inferred, envVars, unitVars, watchVars, sessions, status_cache, running, selfChan,
                   consumerChan, mapLock, main, rs, h, expired>>

\* discover_sessions, then the sessions write lock is taken for the rest of
\* the pass.
IrDiscover ==
    /\ ir.pc = "discover"
    /\ ~mapLock
    /\ mapLock' = TRUE
    /\ \E order \in LockOrders :
        LET discovered == DiscoverSessions(order)
        IN  ir' = [ir EXCEPT !.pc = "loop", !.todo = discovered,
                             !.cands = {GenerateSessionId(d.project_path) : d \in discovered}]
    /\ NoneSent
    /\ UNCHANGED <<inferred, envVars, unitVars, watchVars, sessions, status_cache, running, selfChan,
                   consumerChan, monLock, main, rs, h, calm, expired>>

\* One iteration of `for disc in discovered`, up to its send.
IrProcess ==
    /\ ir.pc = "loop"
    /\ \E disc \in ir.todo, order \in LockOrders :
        LET session_id == GenerateSessionId(disc.project_path)
            project_key == NormalizePath(disc.project_path)
            snapshot_says_alive == SnapshotSaysAlive(ir.lock_snapshot, project_key)
            known == session_id \in DOMAIN sessions
            round == ir.current_round_ids \cup {session_id}
            obs == [known |-> known,
                    status |-> IF known THEN sessions[session_id].status ELSE "",
                    probe |-> ProbeOutcome(disc.project_path, order),
                    uptime |-> IF known THEN ir.now - sessions[session_id].created_at ELSE 0,
                    pid |-> disc.pid,
                    fresh |-> \E r \in DiscoverFromLogs :
                                 NormalizePath(r.project_path) = project_key]
            base == [ir EXCEPT !.todo = @ \ {disc},
                               !.seen = MapInsert(@, session_id, obs)]
        IN  IF ~known
            THEN \* new session
                LET converted == ConvertDiscoveredToSession(disc, ir.now)
                    new_session == [converted EXCEPT
                                      !.created_at = ir.now,
                                      !.status = InitialStatus(snapshot_says_alive)]
                IN  /\ sessions' = MapInsert(sessions, session_id, new_session)
                    /\ inferred' = IF disc.has_log
                                    THEN MapInsert(inferred, disc.log_dir, converted.status)
                                    ELSE inferred
                    /\ ir' = [base EXCEPT
                                !.current_round_ids = round,
                                !.pc = "send",
                                !.pending = SessionDiscoveredEv(session_id, new_session.status)]
            ELSE \* known session: real-time probe
                LET session == sessions[session_id]
                    uptime == ir.now - session.created_at
                    is_currently_alive == VerifyProjectLockRealtime(disc.project_path, order)
                IN  IF ~is_currently_alive
                    THEN /\ sessions' = sessions
                         /\ inferred' = inferred
                         /\ ir' = [base EXCEPT
                                     !.current_round_ids =
                                         IF KeepWhenNotAlive(session.status, uptime)
                                         THEN round ELSE round \ {session_id}]
                    ELSE IF NeedsPromotion(session.status)
                    THEN /\ sessions' = [sessions EXCEPT ![session_id].status = "Running"]
                         /\ inferred' = inferred
                         /\ ir' = [base EXCEPT
                                     !.current_round_ids = round,
                                     !.pc = "send",
                                     !.pending = StatusChangedEv(session_id, "Initializing", "Running")]
                    ELSE /\ sessions' = sessions
                         /\ inferred' = inferred
                         /\ ir' = [base EXCEPT !.current_round_ids = round]
    /\ NoneSent
    /\ UNCHANGED <<envVars, unitVars, watchVars, status_cache, running, selfChan, consumerChan,
                   monLock, mapLock, main, rs, h, calm, expired>>

\* self.event_sender.send(..).await of the loop body completes.
IrSend ==
    /\ ir.pc = "send"
    /\ Send(ir.pending, selfChan, "ir")
    /\ ir' = [ir EXCEPT !.pc = "loop", !.pending = NoEvent, !.log = Append(@, ir.pending)]
    /\ UNCHANGED <<inferred, envVars, unitVars, watchVars, sessions, status_cache, running, selfChan,
                   consumerChan, monLock, mapLock, main, rs, h, calm, expired>>

\* The clean-up phase: sessions.retain.
IrSweep ==
    /\ ir.pc = "loop" /\ ir.todo = {}
    /\ LET gone == SweepRemoved(sessions, ir.current_round_ids)
       IN  /\ sessions' = [id \in DOMAIN sessions \ gone |-> sessions[id]]
           /\ ir' = [ir EXCEPT !.pc = "ended", !.to_remove = gone]
           /\ expired' =
                IF calm >= 1
                THEN expired \cup
                     {id \in gone \cap DOMAIN ir.seen :
                        /\ ir.seen[id].known
                        /\ ir.seen[id].status = "Initializing"
                        /\ ir.seen[id].probe # "Alive"
                        /\ ir.seen[id].uptime > InitGraceSecs}
                ELSE expired
    /\ NoneSent
    /\ UNCHANGED <<inferred, envVars, unitVars, watchVars, status_cache, running, selfChan, consumerChan,
                   monLock, mapLock, main, rs, h, calm>>

\* `for id in to_remove`: one SessionEnded send completes.
IrSendEnded ==
    /\ ir.pc = "ended"
    /\ \E id \in ir.to_remove :
        /\ Send(SessionEndedEv(id), selfChan, "ir")
        /\ ir' = [ir EXCEPT !.to_remove = @ \ {id}, !.log = Append(@, SessionEndedEv(id))]
    /\ UNCHANGED <<inferred, envVars, unitVars, watchVars, sessions, status_cache, running, selfChan,
                   consumerChan, monLock, mapLock, main, rs, h, calm, expired>>

\* instant_refresh returns Ok(()), and get_all_sessions builds its reply from
\* the map and the storage.
IrFinish ==
    /\ ir.pc = "ended" /\ ir.to_remove = {}
    /\ ir' = [ir EXCEPT !.pc = "done", !.reply = GetAllSessions]
    /\ NoneSent
    /\ UNCHANGED <<inferred, envVars, unitVars, watchVars, sessions, status_cache, running, selfChan,
                   consumerChan, monLock, mapLock, main, rs, h, calm, expired>>

\* The write guard on sessions is dropped and get_all_sessions returns its
\* reply, releasing the monitor lock.
IrReturn ==
    /\ ir.pc = "done"
    /\ ir' = IrIdle
    /\ mapLock' = FALSE
    /\ monLock' = [monLock EXCEPT !.writer = "none"]
    /\ NoneSent
    /\ UNCHANGED <<inferred, envVars, unitVars, watchVars, sessions, status_cache, running, selfChan,
                   consumerChan, main, rs, h, calm, expired>>

(* ------------------------------------------------------------------ *)
(* main.rs: the start-up task and the event consumer                   *)
(* ------------------------------------------------------------------ *)

MainBoot == [pc |-> "boot", todo |-> {}, pending |-> NoEvent]

\* state.monitor.write() is taken and start() runs up to the end of
\* LogWatcher::initialize: running is set, the lock directory is watched,
\* and so is the transcript of every session discovered.
StartBegin ==
    /\ main.pc = "boot"
    /\ MonLockFree
    /\ monLock' = [monLock EXCEPT !.writer = "main"]
    /\ running' = TRUE
    /\ watchOn' = TRUE
    /\ \E order \in LockOrders :
        watched' = watched \cup {d.log_dir : d \in {x \in DiscoverSessions(order) : x.has_log}}
    /\ main' = [main EXCEPT !.pc = "discover"]
    /\ NoneSent /\ Disturb
    /\ UNCHANGED <<inferred, envVars, unitVars, watchQ, parseTasks, sessions, status_cache, selfChan,
                   consumerChan, mapLock, ir, rs, h>>

\* discover_existing_sessions: discover_sessions().
StartDiscover ==
    /\ main.pc = "discover"
    /\ \E order \in LockOrders :
        main' = [main EXCEPT !.pc = "sessions", !.todo = DiscoverSessions(order)]
    /\ NoneSent /\ Disturb
    /\ UNCHANGED <<inferred, envVars, unitVars, watchVars, sessions, status_cache, running, selfChan,
                   consumerChan, monLock, mapLock, ir, rs, h>>

\* One iteration of discover_existing_sessions up to its send: the session
\* is converted, inserted, and its transcript watched.
StartSession ==
    /\ main.pc = "sessions"
    /\ ~mapLock
    /\ \E disc \in main.todo :
        LET session == ConvertDiscoveredToSession(disc, now)
            session_id == GenerateSessionId(disc.project_path)
        IN  /\ sessions' = MapInsert(sessions, session_id, session)
            /\ watched' = IF disc.has_log THEN watched \cup {disc.log_dir} ELSE watched
            /\ inferred' = IF disc.has_log
                            THEN MapInsert(inferred, disc.log_dir, session.status)
                            ELSE inferred
            /\ main' = [main EXCEPT !.pc = "send", !.todo = @ \ {disc},
                                    !.pending = SessionDiscoveredEv(session_id, session.status)]
    /\ NoneSent /\ Disturb
    /\ UNCHANGED <<envVars, unitVars, watchOn, watchQ, parseTasks, status_cache, running,
                   selfChan, consumerChan, monLock, mapLock, ir, rs, h>>

StartSend ==
    /\ main.pc = "send"
    /\ Send(main.pending, selfChan, "start")
    /\ main' = [main EXCEPT !.pc = "sessions", !.pending = NoEvent]
    /\ Disturb
    /\ UNCHANGED <<inferred, envVars, unitVars, watchVars, sessions, status_cache, running, selfChan,
                   consumerChan, monLock, mapLock, ir, rs, h>>

\* spawn_event_handler clones the current event_sender for the handler task;
\* start() returns and the monitor lock is released.
StartSpawn ==
    /\ main.pc = "sessions" /\ main.todo = {}
    /\ h' = [h EXCEPT !.pc = "loop", !.chan = selfChan]
    /\ monLock' = [monLock EXCEPT !.writer = "none"]
    /\ main' = [main EXCEPT !.pc = "started"]
    /\ NoneSent /\ Disturb
    /\ UNCHANGED <<inferred, envVars, unitVars, watchVars, sessions, status_cache, running, selfChan,
                   consumerChan, mapLock, ir, rs>>

\* take_event_stream under the monitor write lock: a new channel replaces the
\* monitor's sender and receiver, and the old receiver is returned.
TakeEventStream ==
    /\ main.pc = "started"
    /\ MonLockFree
    /\ consumerChan' = selfChan
    /\ selfChan' = selfChan + 1
    /\ main' = [main EXCEPT !.pc = "forward"]
    /\ NoneSent /\ Disturb
    /\ UNCHANGED <<inferred, envVars, unitVars, watchVars, sessions, status_cache, running, monLock,
                   mapLock, ir, rs, h>>

\* forward_events_to_frontend: rx.recv() on the receiver that was returned.
Forward ==
    /\ main.pc = "forward"
    /\ chan[consumerChan] # <<>>
    /\ chan' = [chan EXCEPT ![consumerChan] = Tail(@)]
    /\ lastSent' = NoSend
    /\ UNCHANGED <<inferred, envVars, unitVars, watchVars, sessions, status_cache, running, selfChan,
                   consumerChan, monLock, mapLock, main, ir, rs, h, live, calm, expired>>

\* next_event: recv() on the receiver the monitor itself holds.
NextEvent ==
    /\ chan[selfChan] # <<>>
    /\ chan' = [chan EXCEPT ![selfChan] = Tail(@)]
    /\ lastSent' = NoSend
    /\ UNCHANGED <<inferred, envVars, unitVars, watchVars, sessions, status_cache, running, selfChan,
                   consumerChan, monLock, mapLock, main, ir, rs, h, live, calm, expired>>

(* ------------------------------------------------------------------ *)
(* spawn_event_handler: the watcher-event loop                         *)
(* ------------------------------------------------------------------ *)

NoWatchEvent == [kind |-> "None", session_id |-> "", dir |-> "", project_path |-> ""]

NoSession == [status |-> "", created_at |-> 0, project_path |-> ""]

HOff == [pc |-> "off", ev |-> NoWatchEvent, session |-> NoSession,
         new_status |-> "", old_status |-> "", pending |-> NoEvent, chan |-> 0]

HReset(pc) == [HOff EXCEPT !.pc = pc, !.chan = h.chan]

hFrame == <<envVars, unitVars, watchOn, watched, parseTasks, running, selfChan, consumerChan,
            monLock, mapLock, main, ir, rs>>

\* Loop head: `if !*running.read().await { break; }`; the read waits while
\* stop() holds the write guard of the flag.
HLoop ==
    /\ h.pc = "loop"
    /\ monLock.writer # "stop"
    /\ h' = [h EXCEPT !.pc = IF running THEN "recv" ELSE "stopped"]
    /\ NoneSent /\ Disturb
    /\ UNCHANGED <<inferred, hFrame, watchQ, sessions, status_cache>>

\* watch_rx.recv() returns the next watcher event.
HRecv ==
    /\ h.pc = "recv"
    /\ watchQ # <<>>
    /\ watchQ' = Tail(watchQ)
    /\ h' = [h EXCEPT !.ev = Head(watchQ),
                      !.pc = CASE Head(watchQ).kind = "SessionDiscovered" -> "check"
                               [] Head(watchQ).kind = "LogChanged" -> "detect"
                               [] Head(watchQ).kind = "Error" -> "send"
                               [] OTHER -> "remove",
                      !.pending = IF Head(watchQ).kind = "Error" THEN ErrorEv ELSE @]
    /\ NoneSent /\ Disturb
    /\ UNCHANGED <<inferred, hFrame, sessions, status_cache>>

\* SessionDiscovered: the existence test compares the raw project paths; a
\* record of the watcher has no log path and no start time.
HCheck ==
    /\ h.pc = "check"
    /\ ~mapLock
    /\ LET exists == \E id \in DOMAIN sessions :
                        sessions[id].project_path = h.ev.project_path
           disc == [pid |-> 1, project_path |-> h.ev.project_path,
                    has_log |-> FALSE, log_dir |-> "", has_start |-> FALSE]
       IN  h' = IF exists THEN HReset("loop")
                ELSE [h EXCEPT !.pc = "insert",
                               !.session = ConvertDiscoveredToSession(disc, now)]
    /\ NoneSent /\ Disturb
    /\ UNCHANGED <<inferred, hFrame, watchQ, sessions, status_cache>>

HInsert ==
    /\ h.pc = "insert"
    /\ ~mapLock
    /\ LET session_id == GenerateSessionId(h.session.project_path)
       IN  /\ sessions' = MapInsert(sessions, session_id, h.session)
           /\ h' = [h EXCEPT !.pc = "send",
                             !.pending = SessionDiscoveredEv(session_id, h.session.status)]
    /\ NoneSent /\ Disturb
    /\ UNCHANGED <<inferred, hFrame, watchQ, status_cache>>

\* LogChanged: detect(path), then the old status from the cache under the
\* event's session_id.
HDetect ==
    /\ h.pc = "detect"
    /\ LET new_status == Detect(LinesOf(h.ev.dir))
           old_status == IF h.ev.session_id \in DOMAIN status_cache
                         THEN status_cache[h.ev.session_id] ELSE "Unknown"
       IN  /\ h' = IF new_status # old_status
                   THEN [h EXCEPT !.pc = "cache", !.new_status = new_status,
                                  !.old_status = old_status]
                   ELSE HReset("loop")
           /\ inferred' = IF new_status = old_status
                           THEN MapInsert(inferred, h.ev.dir, new_status)
                           ELSE inferred
    /\ NoneSent /\ Disturb
    /\ UNCHANGED <<hFrame, watchQ, sessions, status_cache>>

HCache ==
    /\ h.pc = "cache"
    /\ status_cache' = MapInsert(status_cache, h.ev.session_id, h.new_status)
    /\ h' = [h EXCEPT !.pc = "map"]
    /\ NoneSent /\ Disturb
    /\ UNCHANGED <<inferred, hFrame, watchQ, sessions>>

\* `if let Some(session) = sessions.get_mut(&session_id)`
HMap ==
    /\ h.pc = "map"
    /\ ~mapLock
    /\ sessions' = IF h.ev.session_id \in DOMAIN sessions
                   THEN [sessions EXCEPT ![h.ev.session_id].status = h.new_status]
                   ELSE sessions
    /\ h' = [h EXCEPT !.pc = "send",
                      !.pending = StatusChangedEv(h.ev.session_id, h.old_status, h.new_status)]
    /\ NoneSent /\ Disturb
    /\ inferred' = MapInsert(inferred, h.ev.dir, h.new_status)
    /\ UNCHANGED <<hFrame, watchQ, status_cache>>

\* SessionEnded: the id is removed from the map, then from the cache.
HRemove ==
    /\ h.pc = "remove"
    /\ ~mapLock
    /\ sessions' = MapRemove(sessions, h.ev.session_id)
    /\ h' = [h EXCEPT !.pc = "uncache"]
    /\ NoneSent /\ Disturb
    /\ UNCHANGED <<inferred, hFrame, watchQ, status_cache>>

HUncache ==
    /\ h.pc = "uncache"
    /\ status_cache' = MapRemove(status_cache, h.ev.session_id)
    /\ h' = [h EXCEPT !.pc = "send", !.pending = SessionEndedEv(h.ev.session_id)]
    /\ NoneSent /\ Disturb
    /\ UNCHANGED <<inferred, hFrame, watchQ, sessions>>

\* The handler sends on its clone of the sender start() had.
HSend ==
    /\ h.pc = "send"
    /\ Send(h.pending, h.chan, "handler")
    /\ h' = HReset("loop")
    /\ Disturb
    /\ UNCHANGED <<inferred, hFrame, watchQ, sessions, status_cache>>

(* ------------------------------------------------------------------ *)
(* refresh_status: refresh_all and refresh_session                     *)
(* ------------------------------------------------------------------ *)

\* The refresh_status commands in flight.
RefreshProcs == {"r1"}

RsIdle == [pc |-> "idle", todo |-> {}, id |-> "", dir |-> "", new_status |-> "",
           old_status |-> ""]

rsFrame == <<envVars, unitVars, watchVars, running, selfChan, consumerChan, mapLock, main, ir, h>>

\* get_session_log_path: the newest transcript of the directory the session's
\* project_path encodes to, if the session is in the map and the file exists.
GetSessionLogPath(session_id) ==
    IF session_id \in DOMAIN sessions
    THEN FindLogFile(sessions[session_id].project_path)
    ELSE [has_log |-> FALSE, log_dir |-> ""]

\* refresh_status takes the monitor read lock; refresh_all copies the keys.
RsBegin(p) ==
    /\ rs[p].pc = "idle"
    /\ monLock.writer = "none"
    /\ ~mapLock
    /\ monLock' = [monLock EXCEPT !.readers = @ \cup {p}]
    /\ rs' = [rs EXCEPT ![p] = [RsIdle EXCEPT !.pc = "next", !.todo = DOMAIN sessions]]
    /\ NoneSent /\ Disturb
    /\ UNCHANGED <<inferred, rsFrame, sessions, status_cache>>

\* refresh_session up to the comparison: log path, detect, cached old status.
\* A session without a log path is an error, which refresh_all only logs.
RsNext(p) ==
    /\ rs[p].pc = "next"
    /\ ~mapLock
    /\ \E session_id \in rs[p].todo :
        LET log == GetSessionLogPath(session_id)
            new_status == Detect(LinesOf(log.log_dir))
            old_status == IF session_id \in DOMAIN status_cache
                          THEN status_cache[session_id] ELSE "Unknown"
        IN  /\ rs' = [rs EXCEPT ![p] =
                        IF log.has_log /\ new_status # old_status
                        THEN [pc |-> "cache", todo |-> rs[p].todo \ {session_id},
                              id |-> session_id, dir |-> log.log_dir,
                              new_status |-> new_status, old_status |-> old_status]
                        ELSE [RsIdle EXCEPT !.pc = "next",
                                            !.todo = rs[p].todo \ {session_id}]]
            /\ inferred' = IF log.has_log /\ new_status = old_status
                            THEN MapInsert(inferred, log.log_dir, new_status)
                            ELSE inferred
    /\ NoneSent /\ Disturb
    /\ UNCHANGED <<rsFrame, monLock, sessions, status_cache>>

RsCache(p) ==
    /\ rs[p].pc = "cache"
    /\ status_cache' = MapInsert(status_cache, rs[p].id, rs[p].new_status)
    /\ rs' = [rs EXCEPT ![p].pc = "map"]
    /\ NoneSent /\ Disturb
    /\ UNCHANGED <<inferred, rsFrame, monLock, sessions>>

RsMap(p) ==
    /\ rs[p].pc = "map"
    /\ ~mapLock
    /\ sessions' = IF rs[p].id \in DOMAIN sessions
                   THEN [sessions EXCEPT ![rs[p].id].status = rs[p].new_status]
                   ELSE sessions
    /\ rs' = [rs EXCEPT ![p].pc = "send"]
    /\ NoneSent /\ Disturb
    /\ inferred' = MapInsert(inferred, rs[p].dir, rs[p].new_status)
    /\ UNCHANGED <<rsFrame, monLock, status_cache>>

RsSend(p) ==
    /\ rs[p].pc = "send"
    /\ Send(StatusChangedEv(rs[p].id, rs[p].old_status, rs[p].new_status), selfChan, "refresh")
    /\ rs' = [rs EXCEPT ![p] = [RsIdle EXCEPT !.pc = "next", !.todo = rs[p].todo]]
    /\ Disturb
    /\ UNCHANGED <<inferred, rsFrame, monLock, sessions, status_cache>>

\* refresh_all returns and the read lock is released.
RsDone(p) ==
    /\ rs[p].pc = "next" /\ rs[p].todo = {}
    /\ rs' = [rs EXCEPT ![p] = RsIdle]
    /\ monLock' = [monLock EXCEPT !.readers = @ \ {p}]
    /\ NoneSent /\ Disturb
    /\ UNCHANGED <<inferred, rsFrame, sessions, status_cache>>

(* ------------------------------------------------------------------ *)
(* SessionMonitor::stop                                                *)
(* ------------------------------------------------------------------ *)

\* stop(), called once on the write guard of a started monitor: the running
\* flag is set to false under its own write guard, which is held to the end
\* of the call, and the session map is cleared.
StopBegin ==
    /\ running
    /\ MonLockFree /\ ~mapLock
    /\ monLock' = [monLock EXCEPT !.writer = "stop"]
    /\ running' = FALSE
    /\ sessions' = EmptyMap
    /\ NoneSent /\ Disturb
    /\ UNCHANGED <<inferred, envVars, unitVars, watchVars, status_cache, selfChan,
                   consumerChan, mapLock, main, ir, rs, h>>

\* The status cache is cleared and stop() returns, dropping its guards.
StopEnd ==
    /\ monLock.writer = "stop"
    /\ monLock' = [monLock EXCEPT !.writer = "none"]
    /\ status_cache' = EmptyMap
    /\ NoneSent /\ Disturb
    /\ UNCHANGED <<inferred, envVars, unitVars, watchVars, sessions, running, selfChan,
                   consumerChan, mapLock, main, ir, rs, h>>

(* ------------------------------------------------------------------ *)
(* The contention probes, step by step (monitor/mod.rs)                *)
(* ------------------------------------------------------------------ *)

\* The functions that probe a lock file with flock.
ProbeFns == {"is_lock_busy", "check_process_existence", "check_physical_alive"}

ProbeIdle == [pc |-> "idle", fn |-> "", file |-> "", holds |-> FALSE, result |-> ""]

\* The FlockArg each probe passes: LockExclusiveNonblock in is_lock_busy,
\* LockExclusive (which waits for the holder) in the two others.
FlockWaits(fn) == fn # "is_lock_busy"

\* What each probe returns when the flock is refused, when it is granted, and
\* when there is no lock file to open.
ProbeBusy(fn) == IF fn = "check_process_existence" THEN "Alive" ELSE "true"

ProbeFree(fn) == IF fn = "check_process_existence" THEN "Dead" ELSE "false"

ProbeMissing(fn) == IF fn = "check_process_existence" THEN "NotFound" ELSE "false"

probeFrame == <<envVars, storage, call, watchVars, sessions, status_cache, running, chan,
                selfChan, consumerChan, monLock, mapLock, main, ir, rs, h, lastSent, live,
                inferred, calm, expired>>

\* The probe is called on a lock file and opens it; a missing file ends the
\* probe at once.
ProbeCall(fn, f) ==
    /\ probe.pc = "idle"
    /\ probe' = IF lockFiles[f].present
                THEN [ProbeIdle EXCEPT !.pc = "opened", !.fn = fn, !.file = f]
                ELSE [ProbeIdle EXCEPT !.pc = "returned", !.fn = fn, !.file = f,
                                       !.result = ProbeMissing(fn)]
    /\ UNCHANGED probeFrame

\* flock(fd, ..): granted when no process holds the lock; refused at once
\* with the non-blocking argument; otherwise the call waits for the holder.
ProbeFlock ==
    /\ probe.pc = "opened"
    /\ probe' = IF ~lockFiles[probe.file].held
                THEN [probe EXCEPT !.pc = "locked", !.holds = TRUE]
                ELSE IF FlockWaits(probe.fn)
                THEN [probe EXCEPT !.pc = "waiting"]
                ELSE [probe EXCEPT !.pc = "returned", !.result = ProbeBusy(probe.fn)]
    /\ UNCHANGED probeFrame

\* The holder has released the lock: the waiting flock call is granted.
ProbeAcquire ==
    /\ probe.pc = "waiting"
    /\ ~lockFiles[probe.file].held
    /\ probe' = [probe EXCEPT !.pc = "locked", !.holds = TRUE]
    /\ UNCHANGED probeFrame

\* flock(fd, FlockArg::Unlock), and the probe reports the lock free.
ProbeUnlock ==
    /\ probe.pc = "locked"
    /\ probe' = [probe EXCEPT !.pc = "returned", !.holds = FALSE,
                              !.result = ProbeFree(probe.fn)]
    /\ UNCHANGED probeFrame

\* The caller has the result.
ProbeReturn ==
    /\ probe.pc = "returned"
    /\ probe' = ProbeIdle
    /\ UNCHANGED probeFrame

\* The observed process and its lock file change while a probe runs; the
\* process cannot take the lock while the monitor holds it.
AgentStep(f) ==
    /\ LockChange(f)
    /\ (probe.holds /\ probe.file = f) => ~lockFiles'[f].held

(* ------------------------------------------------------------------ *)
(* Functions applied on their own                                      *)
(* ------------------------------------------------------------------ *)

NoCall == [fn |-> "", pc |-> "none"]

\* The variables a function applied on its own leaves alone.
callFrame == <<envVars, probe, storage, watchVars, sessions, status_cache, running, chan,
               selfChan, consumerChan, monLock, mapLock, main, ir, rs, h, lastSent, live,
               inferred, calm, expired>>

\* The upper-case form of the letters of the model's alphabet.
UpperChar(c) ==
    CASE c = "a" -> "A"
      [] c = "b" -> "B"
      [] c = "e" -> "E"
      [] c = "r" -> "R"
      [] c = "o" -> "O"
      [] OTHER -> c

RECURSIVE ToUppercase(_)
ToUppercase(s) ==
    IF Len(s) = 0 THEN s
    ELSE UpperChar(CharAt(s, 1)) \o ToUppercase(SubSeq(s, 2, Len(s)))

\* The folders of a workspace written as a path: with the separator sep, in
\* the given letter case, and with the given trailing separators.
RECURSIVE JoinPath(_, _)
JoinPath(folders, sep) ==
    IF folders = <<>> THEN ""
    ELSE sep \o Head(folders) \o JoinPath(Tail(folders), sep)

Spelling(folders, sep, case, trail) ==
    LET plain == JoinPath(folders, sep)
    IN  (CASE case = "upper" -> ToUppercase(plain)
           [] case = "first" -> ToUppercase(SubSeq(plain, 1, 2)) \o SubSeq(plain, 3, Len(plain))
           [] OTHER -> plain) \o trail

\* The workspaces and the ways their paths are written.
Workspaces == {<<"a">>, <<"ab", "o">>, <<"bar", "e">>}

Spellings ==
    [folders : Workspaces, sep : {"/", "\\"}, case : {"lower", "upper", "first"},
     trail : {"", "/", "\\"}]

PathOf(w) == Spelling(w.folders, w.sep, w.case, w.trail)

\* DiscoveredSession records as generate_session_id reads them: a PID (0 for
\* a record that comes from a transcript) and a project path.
SpelledRecords == [pid : {0, 1}, spelled : Spellings]

\* generate_session_id(&disc): only disc.project_path is read.
GenerateSessionIdOf(disc) == GenerateSessionId(PathOf(disc.spelled))

\* generate_session_id is applied to two records.
GenerateIds ==
    /\ call.fn = "generate_session_id" /\ call.pc = "args"
    /\ call' = [call EXCEPT !.pc = "once",
                            !.id_a = GenerateSessionIdOf(call.a),
                            !.id_b = GenerateSessionIdOf(call.b)]
    /\ NoneSent
    /\ UNCHANGED callFrame

\* It is applied to the first record once more.
GenerateAgain ==
    /\ call.fn = "generate_session_id" /\ call.pc = "once"
    /\ call' = [call EXCEPT !.pc = "done", !.id_again = GenerateSessionIdOf(call.a)]
    /\ NoneSent
    /\ UNCHANGED callFrame

\* discover_sessions is applied to the world as it is, each of its two scans
\* failing or not.
Discover ==
    /\ call.fn = "discover_sessions" /\ call.pc = "args"
    /\ \E order \in LockOrders, lock_fails \in BOOLEAN, log_fails \in BOOLEAN :
        LET lock_scan == LockScan(order, lock_fails)
            log_scan == LogScan(log_fails)
        IN  call' = [call EXCEPT !.pc = "done", !.lock_scan = lock_scan,
                                !.log_scan = log_scan,
                                !.result = DiscoverSessionsFrom(lock_scan, log_scan)]
    /\ NoneSent
    /\ UNCHANGED callFrame

\* The lines a transcript is made of: a user prompt, an assistant turn that
\* calls a tool, an assistant turn that asks for confirmation, a summary, an
\* error, and a line that does not parse, each with any timestamp.
LineShapes ==
    {[ok |-> TRUE, type |-> "user", has_content |-> TRUE, tool_use |-> FALSE,
      text |-> "go"],
     [ok |-> TRUE, type |-> "assistant", has_content |-> TRUE, tool_use |-> TRUE,
      text |-> "Reading the file"],
     [ok |-> TRUE, type |-> "assistant", has_content |-> TRUE, tool_use |-> FALSE,
      text |-> "Do you want to proceed"],
     [ok |-> TRUE, type |-> "summary", has_content |-> FALSE, tool_use |-> FALSE,
      text |-> ""],
     [ok |-> TRUE, type |-> "error", has_content |-> FALSE, tool_use |-> FALSE,
      text |-> ""],
     [ok |-> FALSE, type |-> "", has_content |-> FALSE, tool_use |-> FALSE,
      text |-> ""]}

TranscriptLines ==
    {[ok |-> l.ok, type |-> l.type, ts |-> t, has_content |-> l.has_content,
      tool_use |-> l.tool_use, text |-> l.text] : l \in LineShapes, t \in 1..MaxTs}

\* StatusDetector::detect is applied to a transcript.
DetectCall ==
    /\ call.fn = "detect" /\ call.pc = "args"
    /\ call' = [call EXCEPT !.pc = "done", !.result = Detect(call.lines)]
    /\ NoneSent
    /\ UNCHANGED callFrame

\* convert_to_message: Some(message) for a user or assistant event that has
\* content blocks and a non-empty text; the message keeps the event's
\* timestamp.
IsMessageEvent(event) ==
    event.type \in {"user", "assistant"} /\ event.has_content /\ event.text # ""

ConvertToMessage(event) ==
    [role |-> event.type, content |-> event.text, timestamp |-> event.ts]

\* extract_recent_messages: the messages of the last 2 * limit events, cut to
\* the last limit of them.
ExtractRecentMessages(lines, limit) ==
    LET events == SelectSeq(ReadLastEvents(lines, limit * 2), IsMessageEvent)
        messages == [i \in DOMAIN events |-> ConvertToMessage(events[i])]
    IN  IF Len(messages) > limit
        THEN SubSeq(messages, Len(messages) - limit + 1, Len(messages))
        ELSE messages

\* Iterator::rev
Rev(seq) == [i \in DOMAIN seq |-> seq[Len(seq) + 1 - i]]

\* The messages field of get_session_detail's reply for a session of the
\* monitor whose transcript holds the given lines.
GetSessionDetailMessages(lines, limit) == Rev(ExtractRecentMessages(lines, limit))

\* The message limits the command is called with.
MessageLimits == {1, 2}

\* get_session_detail is applied to a session whose transcript is given.
GetSessionDetailCall ==
    /\ call.fn = "get_session_detail" /\ call.pc = "args"
    /\ call' = [call EXCEPT !.pc = "done",
                            !.messages = GetSessionDetailMessages(call.lines, call.limit)]
    /\ NoneSent
    /\ UNCHANGED callFrame

\* scan_all_locks and verify_project_lock_realtime are applied to the lock
\* directory as it is, each reading the directory in some order.
LocksCall ==
    /\ call.fn = "scan_all_locks" /\ call.pc = "args"
    /\ \E scan_order \in LockOrders, verify_order \in LockOrders :
        call' = [call EXCEPT
                   !.pc = "done",
                   !.lock_map = ScanAllLocks(scan_order),
                   !.verified = VerifyProjectLockRealtime(call.project_path, verify_order)]
    /\ NoneSent
    /\ UNCHANGED callFrame

\* The paths given to the path codec: the workspaces in all their spellings,
\* and paths that have a segment with a '-' in it, the one of
\* tests::test_path_encoding among them.
CodecPaths ==
    {PathOf(w) : w \in Spellings}
    \cup {"/a-b", "/ab/o-e", "\\a-b", "/Users/hejj/projects/backend-api"}

\* encode_project_path is applied to a path ...
EncodeCall ==
    /\ call.fn = "path_codec" /\ call.pc = "args"
    /\ call' = [call EXCEPT !.pc = "encoded", !.encoded = EncodeProjectPath(call.path)]
    /\ NoneSent
    /\ UNCHANGED callFrame

\* ... and decode_project_path to the result.
DecodeCall ==
    /\ call.fn = "path_codec" /\ call.pc = "encoded"
    /\ call' = [call EXCEPT !.pc = "done", !.decoded = DecodeProjectPath(call.encoded)]
    /\ NoneSent
    /\ UNCHANGED callFrame

\* The texts given to is_waiting_for_input and is_blocked: a phrase between a
\* beginning and an end that hold no indicator (the beginning may be the
\* sentence of the tests that holds none).  The phrase is an indicator, an
\* indicator in another letter case, or something close to one.
TextBefore == {"", "ok ", "\\u6211\\u5df2\\u7ecf\\u5b8c\\u6210\\u4e86\\u4efb\\u52a1"}

TextAfter == {"", " now", "\\u3002"}

NotWaitingPhrases ==
    {"", "would you like", "PLEASE CONFIRM", "Would you  like", "Yes/No", "y/N",
     "do you want", "Choose", "\\u8bf7\\u786e", "\\u7ee7\\u7eed"}

BlockedSpellings ==
    BlockedIndicators
    \cup {"Error", "ERROR", "Permission Denied", "TIMEOUT", "Failed", "Unable To",
          "CANNOT"}

NotBlockedPhrases ==
    {"", "err or", "fail", "time out", "can not", "permission granted", "unable",
     "\\u9519", "\\u4efb\\u52a1\\u6267\\u884c\\u6210\\u529f"}

\* is_waiting_for_input is applied to a text.
IsWaitingCall ==
    /\ call.fn = "is_waiting_for_input" /\ call.pc = "args"
    /\ call' = [call EXCEPT !.pc = "done", !.result = IsWaitingForInput(call.text)]
    /\ NoneSent
    /\ UNCHANGED callFrame

\* is_blocked is applied to a text.
IsBlockedCall ==
    /\ call.fn = "is_blocked" /\ call.pc = "args"
    /\ call' = [call EXCEPT !.pc = "done", !.result = IsBlocked(call.text)]
    /\ NoneSent
    /\ UNCHANGED callFrame

\* The events infer_from_event is given: the record types of a transcript,
\* two types the code has no arm for, and content blocks summarised as in
\* analyze_assistant_response (an event without content blocks has neither a
\* tool_use block nor text).
EventTypes ==
    {"user", "assistant", "queue-operation", "file-history-snapshot", "error",
     "tool_error", "summary", "system", "progress"}

EventTexts ==
    {"", "Reading the file", "Do you want to proceed", "The build failed",
     "Would you like to retry the failed step", "ERROR: Permission Denied",
     "Is it done?", "would you like more"}

LogEvents ==
    {e \in [type : EventTypes, has_content : BOOLEAN, tool_use : BOOLEAN,
            text : EventTexts] :
        ~e.has_content => (~e.tool_use /\ e.text = "")}

\* infer_from_event is applied to the deciding event.
InferCall ==
    /\ call.fn = "infer_from_event" /\ call.pc = "args"
    /\ call' = [call EXCEPT !.pc = "done", !.result = InferFromEvent(call.event)]
    /\ NoneSent
    /\ UNCHANGED callFrame

\* The lines of a transcript file as bytes: the lines above, which are UTF-8
\* whether they parse or not, and a line cut in the middle of a multi-byte
\* character, which is not UTF-8 and parses as nothing.
FileLines ==
    {[ok |-> l.ok, type |-> l.type, ts |-> l.ts, has_content |-> l.has_content,
      tool_use |-> l.tool_use, text |-> l.text, utf8 |-> TRUE] : l \in TranscriptLines}
    \cup {[ok |-> FALSE, type |-> "", ts |-> 1, has_content |-> FALSE,
           tool_use |-> FALSE, text |-> "", utf8 |-> FALSE]}

\* StatusDetector::detect is applied to a transcript file.
DetectFileCall ==
    /\ call.fn = "detect_file" /\ call.pc = "args"
    /\ LET r == DetectResult(call.lines)
       IN  call' = [call EXCEPT !.pc = "done", !.ok = r.ok, !.result = r.status]
    /\ NoneSent
    /\ UNCHANGED callFrame

(* ------------------------------------------------------------------ *)
(* Specifications                                                      *)
(* ------------------------------------------------------------------ *)

\* After SessionMonitor::new() and AppState construction, in a world whose
\* lock files and transcripts are the given ones, all absent at first.
InitMonitor(ws, dirs, steps) ==
    /\ lockWs = ws
    /\ budget = steps
    /\ lockFiles = [f \in DOMAIN ws |-> NoLockFile]
    /\ logs = [d \in dirs |-> NoLog]
    /\ now = 0
    /\ watchOn = FALSE /\ watched = {} /\ watchQ = <<>> /\ parseTasks = {}
    /\ sessions = EmptyMap /\ status_cache = EmptyMap
    /\ running = FALSE
    /\ chan = [c \in {1, 2} |-> <<>>]
    /\ selfChan = 1 /\ consumerChan = 0
    /\ monLock = [writer |-> "none", readers |-> {}]
    /\ mapLock = FALSE
    /\ main = MainBoot /\ ir = IrIdle /\ h = HOff
    /\ rs = [p \in RefreshProcs |-> RsIdle]
    /\ lastSent = NoSend /\ live = {} /\ inferred = EmptyMap /\ calm = 0 /\ expired = {}

\* No operation is being exercised on its own, and no session index has been
\* persisted (load_session_index reads a missing file as empty).
UnitIdle == probe = ProbeIdle /\ storage = {} /\ call = NoCall

InitWorld(ws, dirs, steps) == InitMonitor(ws, dirs, steps) /\ UnitIdle

World ==
    \/ \E f \in DOMAIN lockFiles : LockChange(f)
    \/ \E dir \in DOMAIN logs : LogWrite(dir)
    \/ \E dir \in DOMAIN logs : LogAge(dir)
    \/ \E dir \in DOMAIN logs : LogDelete(dir)

InstantRefresh ==
    \/ IrBegin \/ IrDiscover \/ IrProcess \/ IrSend
    \/ IrSweep \/ IrSendEnded \/ IrFinish \/ IrReturn

Startup ==
    \/ StartBegin \/ StartDiscover \/ StartSession \/ StartSend \/ StartSpawn
    \/ TakeEventStream \/ Forward

Handler ==
    \/ \E f \in DOMAIN lockFiles : ParseTask(f)
    \/ HLoop \/ HRecv \/ HCheck \/ HInsert \/ HDetect \/ HCache \/ HMap
    \/ HRemove \/ HUncache \/ HSend

Refresh ==
    \E p \in RefreshProcs :
        \/ RsBegin(p) \/ RsNext(p) \/ RsCache(p) \/ RsMap(p) \/ RsSend(p) \/ RsDone(p)

\* The application: one workspace, its lock file and its transcript.
Init == InitWorld([f \in {"l1"} |-> "/a"], {"-a"}, MaxWorldSteps)

Next == World \/ Startup \/ Handler \/ InstantRefresh \/ Refresh

Spec == Init /\ [][Next]_vars

\* The reconciliation pass alone, on a monitor that was not started, its
\* events read with next_event: a workspace with a lock file, and one known
\* by its transcript only.
InitPass == InitWorld([f \in {"l1"} |-> "/a"], {"-b"}, -1)

NextPass == World \/ Tick \/ InstantRefresh \/ NextEvent

PassSpec == InitPass /\ [][NextPass]_vars

\* The monitor is started and then stopped while the watcher and the event
\* handler run.  The runtime runs every task that can take a step, so the
\* handler, the main task and stop() are weakly fair; the observed world is
\* under no obligation to change.
Stop == StopBegin \/ StopEnd

InitStop == InitWorld([f \in {"l1"} |-> "/a"], {"-a"}, MaxWorldSteps)

NextStop == World \/ Startup \/ Handler \/ Stop

StopSpec ==
    /\ InitStop /\ [][NextStop]_vars
    /\ WF_vars(Startup) /\ WF_vars(Handler) /\ WF_vars(Stop)

\* The started monitor with its watcher, the file-system notifications
\* including notify's own errors.
InitWatch == InitWorld([f \in {"l1"} |-> "/a"], {"-a"}, MaxWorldSteps)

NextWatch == World \/ WatchFault \/ Startup \/ Handler

WatchSpec == InitWatch /\ [][NextWatch]_vars

\* The list-active-sessions command on a started monitor, with a session
\* index persisted by an earlier run.
StoredSessions ==
    {[id |-> "sess_/old", status |-> "Completed", is_archived |-> FALSE],
     [id |-> "sess_/gone", status |-> "Unknown", is_archived |-> TRUE]}

InitCommand ==
    /\ InitMonitor([f \in {"l1"} |-> "/a"], {"-a"}, MaxWorldSteps)
    /\ probe = ProbeIdle /\ call = NoCall
    /\ storage \in SUBSET StoredSessions

NextCommand == World \/ Startup \/ InstantRefresh

CommandSpec == InitCommand /\ [][NextCommand]_vars

\* The list-active-sessions command called again and again on a started
\* monitor while the lock file of the workspace changes, with the scheduling
\* the runtime gives: the start-up task and the command's task are polled
\* whenever they can make progress.  Nothing in the application calls
\* next_event, so no step reads the receiver the monitor keeps.
InitList == InitWorld([f \in {"l1"} |-> "/a"], {}, LiveWorldSteps)

NextList == (\E f \in DOMAIN lockFiles : LockChange(f)) \/ Startup \/ InstantRefresh

ListSpec ==
    /\ InitList /\ [][NextList]_vars
    /\ WF_vars(Startup) /\ WF_vars(InstantRefresh)

\* A world in which nothing is observed, for the functions applied alone.
InitQuiet ==
    /\ InitMonitor([f \in {} |-> ""], {}, 0)
    /\ probe = ProbeIdle /\ storage = {}

\* generate_session_id on two discovered records.
InitId ==
    /\ InitQuiet
    /\ \E a \in SpelledRecords, b \in SpelledRecords :
         call = [fn |-> "generate_session_id", pc |-> "args", a |-> a, b |-> b,
                 id_a |-> "", id_b |-> "", id_again |-> ""]

NextId == GenerateIds \/ GenerateAgain

IdSpec == InitId /\ [][NextId]_vars

\* discover_sessions on a world of two lock files, whose workspace folders
\* are written in any of the spellings below, and one transcript directory.
LockSpellings == {"/a", "/A", "/a/", "\\a", "/b"}

InitDiscover ==
    /\ \E ws \in [{"l1", "l2"} -> LockSpellings] : InitMonitor(ws, {"-a"}, -1)
    /\ probe = ProbeIdle /\ storage = {}
    /\ call = [fn |-> "discover_sessions", pc |-> "args",
               lock_scan |-> LockScan(<<>>, TRUE), log_scan |-> LogScan(TRUE),
               result |-> [ok |-> FALSE, sessions |-> {}]]

NextDiscover == (call.pc = "args" /\ World) \/ Discover

DiscoverSpec == InitDiscover /\ [][NextDiscover]_vars

\* The refresh-status command issued twice at once on a started monitor:
\* both calls hold the monitor read lock and run refresh_all together.
ConcurrentRefreshes == {"r1", "r2"}

InitRefresh ==
    /\ lockWs = [f \in {"l1"} |-> "/a"]
    /\ budget = LiveWorldSteps
    /\ lockFiles = [f \in {"l1"} |-> NoLockFile]
    /\ logs = [d \in {"-a"} |-> NoLog]
    /\ now = 0
    /\ watchOn = FALSE /\ watched = {} /\ watchQ = <<>> /\ parseTasks = {}
    /\ sessions = EmptyMap /\ status_cache = EmptyMap
    /\ running = FALSE
    /\ chan = [c \in {1, 2} |-> <<>>]
    /\ selfChan = 1 /\ consumerChan = 0
    /\ monLock = [writer |-> "none", readers |-> {}]
    /\ mapLock = FALSE
    /\ main = MainBoot /\ ir = IrIdle /\ h = HOff
    /\ rs = [p \in ConcurrentRefreshes |-> RsIdle]
    /\ lastSent = NoSend /\ live = {} /\ inferred = EmptyMap /\ calm = 0 /\ expired = {}
    /\ UnitIdle

RefreshTwice ==
    \E p \in ConcurrentRefreshes :
        \/ RsBegin(p) \/ RsNext(p) \/ RsCache(p) \/ RsMap(p) \/ RsSend(p) \/ RsDone(p)

NextRefresh == World \/ Startup \/ RefreshTwice

RefreshSpec == InitRefresh /\ [][NextRefresh]_vars

\* The two lock probes on a directory of two lock files whose workspace
\* folders are written in any of the spellings of LockSpellings.
InitLocks ==
    /\ \E ws \in [{"l1", "l2"} -> LockSpellings] : InitMonitor(ws, {}, -1)
    /\ probe = ProbeIdle /\ storage = {}
    /\ \E f \in {"l1", "l2"} :
         call = [fn |-> "scan_all_locks", pc |-> "args", project_path |-> lockWs[f],
                 lock_map |-> EmptyMap, verified |-> FALSE]

NextLocks == (call.pc = "args" /\ \E f \in DOMAIN lockFiles : LockChange(f)) \/ LocksCall

LocksSpec == InitLocks /\ [][NextLocks]_vars

\* get_session_detail on every transcript of at most MaxLines lines.
InitDetail ==
    /\ InitQuiet
    /\ \E n \in 1..MaxLines, limit \in MessageLimits :
         \E lines \in [1..n -> TranscriptLines] :
            call = [fn |-> "get_session_detail", pc |-> "args", lines |-> lines,
                    limit |-> limit, messages |-> <<>>]

NextDetail == GetSessionDetailCall

DetailSpec == InitDetail /\ [][NextDetail]_vars

\* detect() on every transcript of at most MaxLines lines.
InitDetect ==
    /\ InitQuiet
    /\ \E n \in 1..MaxLines : \E lines \in [1..n -> TranscriptLines] :
         call = [fn |-> "detect", pc |-> "args", lines |-> lines, result |-> ""]

NextDetect == DetectCall

DetectSpec == InitDetect /\ [][NextDetect]_vars

\* detect() on every transcript file of at most MaxLines lines, malformed
\* lines included.
InitDetectFile ==
    /\ InitQuiet
    /\ \E n \in 1..MaxLines : \E lines \in [1..n -> FileLines] :
         call = [fn |-> "detect_file", pc |-> "args", lines |-> lines,
                 ok |-> FALSE, result |-> ""]

NextDetectFile == DetectFileCall

DetectFileSpec == InitDetectFile /\ [][NextDetectFile]_vars

\* The path codec on every path: encode, then decode.
InitCodec ==
    /\ InitQuiet
    /\ \E path \in CodecPaths :
         call = [fn |-> "path_codec", pc |-> "args", path |-> path,
                 encoded |-> "", decoded |-> ""]

NextCodec == EncodeCall \/ DecodeCall

CodecSpec == InitCodec /\ [][NextCodec]_vars

\* The two indicator tests on every text.
InitIndicator ==
    /\ InitQuiet
    /\ \E before \in TextBefore, after \in TextAfter :
         \/ \E phrase \in WaitingIndicators \cup NotWaitingPhrases :
               call = [fn |-> "is_waiting_for_input", pc |-> "args", phrase |-> phrase,
                       text |-> before \o phrase \o after, result |-> FALSE]
         \/ \E phrase \in BlockedSpellings \cup NotBlockedPhrases :
               call = [fn |-> "is_blocked", pc |-> "args", phrase |-> phrase,
                       text |-> before \o phrase \o after, result |-> FALSE]

NextIndicator == IsWaitingCall \/ IsBlockedCall

IndicatorSpec == InitIndicator /\ [][NextIndicator]_vars

\* infer_from_event on every deciding event.
InitInfer ==
    /\ InitQuiet
    /\ \E e \in LogEvents :
         call = [fn |-> "infer_from_event", pc |-> "args", event |-> e, result |-> ""]

NextInfer == InferCall

InferSpec == InitInfer /\ [][NextInfer]_vars

\* The contention probes alone, against two lock files whose processes come
\* and go.
InitProbe == InitWorld([f \in {"l1", "l2"} |-> IF f = "l1" THEN "/a" ELSE "/b"], {}, -1)

NextProbe ==
    \/ \E f \in DOMAIN lockFiles : AgentStep(f)
    \/ \E fn \in ProbeFns, f \in DOMAIN lockFiles : ProbeCall(fn, f)
    \/ ProbeFlock \/ ProbeAcquire \/ ProbeUnlock \/ ProbeReturn

ProbeSpec == InitProbe /\ [][NextProbe]_vars

(* ------------------------------------------------------------------ *)
(* Properties                                                          *)
(* ------------------------------------------------------------------ *)

\* The events of the given kind for the given id among those a pass sent.
CountKind(log, kind, id) ==
    Cardinality({i \in DOMAIN log : log[i].kind = kind /\ log[i].id = id})

PassActive == ir.pc # "idle"

\* C1: when instant_refresh runs a second time right after a first run, with
\* no change of the world, no step of another task and no clock advance in
\* between, the second run sends no event and never makes the map differ
\* from the map it started with.
C1_SecondPassIsNoOp ==
    (calm = 2 /\ PassActive) => (ir.log = <<>> /\ sessions = ir.start_map)

\* C2: a known Initializing session whose lock is not held after more than
\* InitGraceSecs is gone at the end of the pass with exactly one SessionEnded,
\* and while nothing external changes afterwards no pass sends another
\* SessionDiscovered for it.
C2_TimedOutNotResurrected ==
    /\ ir.pc = "done" =>
         \A id \in DOMAIN ir.seen :
            (/\ ir.seen[id].known
             /\ ir.seen[id].status = "Initializing"
             /\ ir.seen[id].probe # "Alive"
             /\ ir.seen[id].uptime > InitGraceSecs)
            => (id \notin DOMAIN sessions /\ CountKind(ir.log, "SessionEnded", id) = 1)
    /\ lastSent.ev.kind = "SessionDiscovered" => lastSent.ev.id \notin expired

\* C3: per session id the stream reads SessionDiscovered, StatusChanged*,
\* SessionEnded: a StatusChanged or SessionEnded is only sent for an id whose
\* last lifecycle event was SessionDiscovered, and a SessionDiscovered only
\* for an id that is not in that state, whoever sends.
C3_PerSessionOrder ==
    /\ lastSent.ev.kind \in {"StatusChanged", "SessionEnded"} => lastSent.was_live
    /\ lastSent.ev.kind = "SessionDiscovered" => ~lastSent.was_live

\* C4: once take_event_stream has returned a receiver, every event the
\* monitor sends goes to the channel of that receiver (so that the consumer
\* can receive it).
C4_SentToConsumer ==
    (consumerChan # 0 /\ lastSent.ev # NoEvent) => lastSent.chan = consumerChan

\* C5: at the moment an event is sent the map reflects it: the session is in
\* the map for SessionDiscovered, in the map with new_status for
\* StatusChanged, absent for SessionEnded.
C5_MapReflectsEvent ==
    /\ lastSent.ev.kind = "SessionDiscovered" => lastSent.ev.id \in DOMAIN sessions
    /\ lastSent.ev.kind = "StatusChanged" =>
         /\ lastSent.ev.id \in DOMAIN sessions
         /\ sessions[lastSent.ev.id].status = lastSent.ev.new
    /\ lastSent.ev.kind = "SessionEnded" => lastSent.ev.id \notin DOMAIN sessions

\* C6: a candidate that comes from a lock file (its PID passed the existence
\* probe) and is not in the map yields, at the end of the pass, one session
\* with status Running and exactly one SessionDiscovered.
C6_NewLockSessionRunning ==
    ir.pc = "done" =>
        \A id \in DOMAIN ir.seen :
            (~ir.seen[id].known /\ ir.seen[id].pid # 0)
            => /\ id \in DOMAIN sessions
               /\ sessions[id].status = "Running"
               /\ CountKind(ir.log, "SessionDiscovered", id) = 1

\* C7: when a pass has finished, every session that was in the map when the
\* pass began and whose id is not among the pass's candidates is absent from
\* the map, and the pass sent exactly one SessionEnded for it.
C7_SweepEndsMissing ==
    ir.pc = "done" =>
        \A id \in DOMAIN ir.start_map \ ir.cands :
            /\ id \notin DOMAIN sessions
            /\ CountKind(ir.log, "SessionEnded", id) = 1

\* C7, its case: a finished pass that began with a session which was not
\* among its candidates.
C7_Witness ==
    /\ ir.pc = "done"
    /\ DOMAIN ir.start_map \ ir.cands # {}

\* C8: the status of every session in the map is the result of the last
\* status inference made on its transcript, or Unknown or Initializing when
\* none has been made.
C8_StatusIsLastInference ==
    \A id \in DOMAIN sessions :
        LET dir == EncodeProjectPath(sessions[id].project_path)
        IN  IF dir \in DOMAIN inferred
            THEN sessions[id].status = inferred[dir]
            ELSE sessions[id].status \in {"Unknown", "Initializing"}

\* C9: a known session that is not Initializing and whose real-time probe
\* finds its lock file with the lock free is, at the end of the pass, out of
\* the map with a SessionEnded sent.
C9_FreeLockEndsSession ==
    ir.pc = "done" =>
        \A id \in DOMAIN ir.seen :
            (/\ ir.seen[id].known
             /\ ir.seen[id].status # "Initializing"
             /\ ir.seen[id].probe = "Dead")
            => (id \notin DOMAIN sessions /\ CountKind(ir.log, "SessionEnded", id) = 1)

\* C10: a known session that is not Initializing, whose transcript is fresh
\* and for which the probe finds no lock file, is still in the map at the end
\* of the pass.
C10_NotFoundKeepsSession ==
    ir.pc = "done" =>
        \A id \in DOMAIN ir.seen :
            (/\ ir.seen[id].known
             /\ ir.seen[id].status # "Initializing"
             /\ ir.seen[id].probe = "NotFound"
             /\ ir.seen[id].fresh)
            => id \in DOMAIN sessions

\* C11: a known Initializing session whose real-time probe does not find the
\* lock held is, at the end of a pass in which its age is at most
\* InitGraceSecs, still in the map as Initializing with no event sent for it,
\* and at the end of a pass in which its age exceeds InitGraceSecs it is out
\* of the map with exactly one SessionEnded sent for it.
C11_GraceThenEnded ==
    ir.pc = "done" =>
        \A id \in DOMAIN ir.seen :
            (/\ ir.seen[id].known
             /\ ir.seen[id].status = "Initializing"
             /\ ir.seen[id].probe # "Alive")
            => IF ir.seen[id].uptime <= InitGraceSecs
               THEN /\ id \in DOMAIN sessions
                    /\ sessions[id].status = "Initializing"
                    /\ \A i \in DOMAIN ir.log : ir.log[i].id # id
               ELSE /\ id \notin DOMAIN sessions
                    /\ CountKind(ir.log, "SessionEnded", id) = 1
                    /\ \A i \in DOMAIN ir.log :
                          ir.log[i].id = id => ir.log[i].kind = "SessionEnded"

\* C11, its case: a finished pass that probed an Initializing session of age
\* exactly InitGraceSecs and did not find its lock held.
C11_Witness ==
    /\ ir.pc = "done"
    /\ \E id \in DOMAIN ir.seen :
        /\ ir.seen[id].known
        /\ ir.seen[id].status = "Initializing"
        /\ ir.seen[id].probe # "Alive"
        /\ ir.seen[id].uptime = InitGraceSecs

\* C12: a known Initializing session whose real-time probe finds the lock
\* held has status Running at the end of the pass, and the pass sent exactly
\* one event for it: StatusChanged from Initializing to Running.
C12_PromotedToRunning ==
    ir.pc = "done" =>
        \A id \in DOMAIN ir.seen :
            (/\ ir.seen[id].known
             /\ ir.seen[id].status = "Initializing"
             /\ ir.seen[id].probe = "Alive")
            => /\ id \in DOMAIN sessions
               /\ sessions[id].status = "Running"
               /\ CountKind(ir.log, "StatusChanged", id) = 1
               /\ \A i \in DOMAIN ir.log :
                     ir.log[i].id = id =>
                        ir.log[i] = StatusChangedEv(id, "Initializing", "Running")

\* C12, its case: a finished pass that probed an Initializing session and
\* found its lock held.
C12_Witness ==
    /\ ir.pc = "done"
    /\ \E id \in DOMAIN ir.seen :
        /\ ir.seen[id].known
        /\ ir.seen[id].status = "Initializing"
        /\ ir.seen[id].probe = "Alive"

\* C13: no contention probe waits for the holder of a lock (a probe that
\* finds the lock held returns at once), and no probe returns while the
\* monitor still holds the lock it acquired.
C13_ProbesNeverBlock ==
    /\ probe.pc # "waiting"
    /\ probe.pc \in {"idle", "returned"} => ~probe.holds

\* C14: once the event handler has been spawned, whenever the running flag
\* is false (stop() has set it) the handler loop eventually leaves its loop.
C14_HandlerStops ==
    (h.pc # "off" /\ ~running) ~> (h.pc = "stopped")

\* C15: a step that deletes a transcript the watcher tracks, whose session
\* is in the map, puts an Error event on the watcher's channel (as far as
\* try_send can) and leaves the session map as it is.
C15_DeletedTranscriptError ==
    [][\A dir \in DOMAIN logs :
         (/\ dir \in watched
          /\ logs[dir].present /\ ~logs'[dir].present
          /\ \E id \in DOMAIN sessions :
                EncodeProjectPath(sessions[id].project_path) = dir)
         => /\ watchQ' = TrySend(watchQ, WatchError)
            /\ sessions' = sessions]_vars

\* C16: when the reconciliation pass of get_all_sessions has ended, the
\* command's reply is the sessions of the live map whose status is not
\* Unknown, and it is the non-archived sessions of the storage exactly when
\* the map has no such session.
C16_ReplyIsFilteredOrStored ==
    ir.pc = "done" =>
        LET shown == {[id |-> id, status |-> sessions[id].status] :
                        id \in {x \in DOMAIN sessions : sessions[x].status # "Unknown"}}
            stored == {[id |-> s.id, status |-> s.status] :
                         s \in {x \in storage : ~x.is_archived}}
        IN  /\ shown # {} => ir.reply = shown
            /\ shown = {} => ir.reply = stored

\* C16, its case: a pass has ended with only Unknown sessions in the map
\* while the storage holds an archived and a non-archived session.
C16_Witness ==
    /\ ir.pc = "done"
    /\ DOMAIN sessions # {}
    /\ \A id \in DOMAIN sessions : sessions[id].status = "Unknown"
    /\ storage = StoredSessions

\* C17: two records of the same workspace, however its path is spelled
\* (letter case, trailing separators, separator style) and whatever their
\* PIDs, get the same identifier, and a record gets the same identifier each
\* time.
C17_IdFromNormalizedPath ==
    (call.fn = "generate_session_id" /\ call.pc = "done") =>
        /\ call.a.spelled.folders = call.b.spelled.folders => call.id_a = call.id_b
        /\ call.id_again = call.id_a

\* C17, its case: two records of one workspace with different PIDs whose
\* paths differ in letter case, in separator style and in trailing
\* separators have been given their identifiers.
C17_Witness ==
    /\ call.fn = "generate_session_id" /\ call.pc = "done"
    /\ call.a.spelled.folders = call.b.spelled.folders
    /\ call.a.pid # call.b.pid
    /\ call.a.spelled.case # call.b.spelled.case
    /\ call.a.spelled.sep # call.b.spelled.sep
    /\ call.a.spelled.trail # call.b.spelled.trail

\* C18: discover_sessions returns at most one record per normalized
\* workspace path: no two different records of its result have paths that
\* normalize to the same path.
C18_OneRecordPerWorkspace ==
    (call.fn = "discover_sessions" /\ call.pc = "done") =>
        \A r1 \in call.result.sessions, r2 \in call.result.sessions :
            NormalizePath(r1.project_path) = NormalizePath(r2.project_path) => r1 = r2

C20_LastLineDecides ==
    (call.fn = "detect" /\ call.pc = "done") =>
        LET last == call.lines[Len(call.lines)]
        IN  (/\ last.ok /\ last.type = "assistant"
             /\ last.has_content /\ ~last.tool_use
             /\ IsWaitingForInput(last.text))
            => call.result = "WaitingInput"

\* C21: detect never fails because of malformed lines: it returns Ok, its
\* status is the one it returns for the transcript without the lines that do
\* not parse, and a transcript with no line that parses gives Unknown.
C21_MalformedLinesSkipped ==
    (call.fn = "detect_file" /\ call.pc = "done") =>
        LET well_formed == SelectSeq(call.lines, LAMBDA l : l.ok)
        IN  /\ call.ok
            /\ call.result = Detect(well_formed)
            /\ (well_formed = <<>> => call.result = "Unknown")

\* C22 as stated: the type of the deciding event decides the status: user
\* gives Running, error and tool_error give Blocked, summary gives
\* WaitingInput, and every type other than user, assistant, error, tool_error
\* and summary gives Unknown.
C22_OtherTypesUnknown ==
    (call.fn = "infer_from_event" /\ call.pc = "done") =>
        /\ call.event.type = "user" => call.result = "Running"
        /\ call.event.type \in {"error", "tool_error"} => call.result = "Blocked"
        /\ call.event.type = "summary" => call.result = "WaitingInput"
        /\ call.event.type \notin {"user", "assistant", "error", "tool_error", "summary"}
              => call.result = "Unknown"

\* C22 amended: user, queue-operation and file-history-snapshot give Running,
\* error and tool_error give Blocked, summary gives WaitingInput, and every
\* type other than these six and assistant gives Unknown.
C22_StatusByEventType ==
    (call.fn = "infer_from_event" /\ call.pc = "done") =>
        /\ call.event.type \in {"user", "queue-operation", "file-history-snapshot"}
              => call.result = "Running"
        /\ call.event.type \in {"error", "tool_error"} => call.result = "Blocked"
        /\ call.event.type = "summary" => call.result = "WaitingInput"
        /\ call.event.type \notin {"user", "assistant", "queue-operation",
                                   "file-history-snapshot", "error", "tool_error",
                                   "summary"}
              => call.result = "Unknown"

\* A tool_error record that carries content blocks has been inferred Blocked.
C22_Witness ==
    /\ call.fn = "infer_from_event" /\ call.pc = "done"
    /\ call.event.type = "tool_error" /\ call.event.has_content
    /\ call.result = "Blocked"

\* C23: when the deciding event is an assistant turn, a tool-use block gives
\* Running whatever the text says; without a tool-use block, text matching a
\* waiting pattern gives WaitingInput; without either, text matching a failure
\* keyword gives Blocked.
C23_AssistantTurn ==
    (call.fn = "infer_from_event" /\ call.pc = "done"
     /\ call.event.type = "assistant") =>
        LET event == call.event
            waiting == IsWaitingForInput(event.text)
        IN  /\ event.tool_use => call.result = "Running"
            /\ (~event.tool_use /\ waiting) => call.result = "WaitingInput"
            /\ (~event.tool_use /\ ~waiting /\ IsBlocked(event.text))
                  => call.result = "Blocked"

\* An assistant turn without a tool-use block whose text holds both a waiting
\* phrase and a failure keyword has been inferred WaitingInput.
C23_Witness ==
    /\ call.fn = "infer_from_event" /\ call.pc = "done"
    /\ call.event.type = "assistant" /\ ~call.event.tool_use
    /\ IsWaitingForInput(call.event.text) /\ IsBlocked(call.event.text)
    /\ call.result = "WaitingInput"

\* C24 as stated: for a path whose segments hold no '-', decoding the encoded
\* path gives the normalized path (lowercased, trailing separators stripped,
\* separators unified to '/'), the two compared as paths.
C24_RoundTripNormalizes ==
    (call.fn = "path_codec" /\ call.pc = "done" /\ ~Contains(call.path, "-")) =>
        PathBufKey(call.decoded) = PathBufKey(NormalizePath(call.path))

\* C24 amended: for a path whose segments hold no '-', decoding the encoded
\* path gives the path with its separators unified to '/', letter case and
\* trailing separators kept.
C24_RoundTripUnifiesSeparators ==
    (call.fn = "path_codec" /\ call.pc = "done" /\ ~Contains(call.path, "-")) =>
        call.decoded = ReplaceChar(call.path, "\\", "/")

\* A path written with '\\' and with capital letters has gone through the
\* codec.
C24_Witness ==
    /\ call.fn = "path_codec" /\ call.pc = "done"
    /\ ~Contains(call.path, "-") /\ Contains(call.path, "\\")
    /\ call.path # ToLowercase(call.path)
    /\ call.decoded = ReplaceChar(call.path, "\\", "/")

\* C25: encoding an absolute '/'-separated path and decoding the result gives
\* the original path, also when a segment of the path holds a '-'.
C25_RoundTripKeepsDash ==
    (call.fn = "path_codec" /\ call.pc = "done"
     /\ CharAt(call.path, 1) = "/" /\ ~Contains(call.path, "\\")) =>
        PathBufKey(call.decoded) = PathBufKey(call.path)

\* C26: is_waiting_for_input is true exactly of the texts that hold one of
\* the waiting indicators, in the letter case of the list: it is true of a
\* text built around an indicator, and false of a text built around the same
\* phrase in another letter case or around a part of it.
C26_WaitingExactlyOnIndicator ==
    (call.fn = "is_waiting_for_input" /\ call.pc = "done") =>
        (call.result <=> call.phrase \in WaitingIndicators)

\* The test has refused an indicator written in lower case, inside a sentence.
C26_Witness ==
    /\ call.fn = "is_waiting_for_input" /\ call.pc = "done"
    /\ call.phrase = "would you like" /\ call.text # call.phrase
    /\ ~call.result

\* C27: is_blocked is true exactly of the texts whose lower-case form holds
\* one of the failure indicators: it is true of a text built around an
\* indicator in any letter case, and false of a text built around a phrase
\* that is only close to one.
C27_BlockedExactlyOnIndicator ==
    (call.fn = "is_blocked" /\ call.pc = "done") =>
        (call.result <=> call.phrase \in BlockedSpellings)

\* The test has accepted an indicator written in capitals, inside a sentence.
C27_Witness ==
    /\ call.fn = "is_blocked" /\ call.pc = "done"
    /\ call.phrase = "Permission Denied" /\ call.text # call.phrase
    /\ call.result

\* C28: the write lock of the session map is not held across a suspension
\* point of instant_refresh: while the pass holds it, no candidate is left
\* whose transcript has still to be read or whose lock has still to be
\* probed, and no event is waiting to be sent.
C28_NoSuspensionUnderMapLock ==
    mapLock =>
        ~(\/ ir.pc = "loop" /\ ir.todo # {}
          \/ ir.pc = "send"
          \/ ir.pc = "ended" /\ ir.to_remove # {})

\* C29: when the handler has taken a LogChanged for the transcript of a
\* session of the map, the transcript is there to be read and the status it
\* infers differs from that session's status, it goes on to apply the change, and the step that writes the map
\* sets that session's status to the inferred one and prepares a
\* StatusChanged with that session's identifier.
C29_TranscriptChangeApplied ==
    [][LET tracked == {id \in DOMAIN sessions :
                         EncodeProjectPath(sessions[id].project_path) = h.ev.dir}
       IN  /\ (h.pc = "detect" /\ h'.pc # "detect" /\ HasLogFile(h.ev.dir)) =>
                 \A id \in tracked :
                     sessions[id].status # Detect(LinesOf(h.ev.dir)) => h'.pc = "cache"
           /\ (h.pc = "map" /\ h'.pc = "send") =>
                 \A id \in tracked :
                     sessions[id].status # h.new_status =>
                         /\ id \in DOMAIN sessions'
                         /\ sessions'[id].status = h.new_status
                         /\ h'.pending.kind = "StatusChanged"
                         /\ h'.pending.id = id]_vars

\* C30: a StatusChanged event has old_status different from new_status, and
\* its old_status is the status the session had in the map right before the
\* step that changed it (the handler's, refresh_session's or the pass's).
C30_OldStatusIsMapStatus ==
    [][/\ lastSent'.ev.kind = "StatusChanged" => lastSent'.ev.old # lastSent'.ev.new
       /\ \A p \in RefreshProcs :
            (rs[p].pc = "map" /\ rs'[p].pc = "send" /\ rs[p].id \in DOMAIN sessions)
            => rs[p].old_status = sessions[rs[p].id].status
       /\ (h.pc = "map" /\ h'.pc = "send" /\ h.ev.session_id \in DOMAIN sessions)
            => h.old_status = sessions[h.ev.session_id].status
       /\ (ir.pc = "loop" /\ ir'.pc = "send" /\ ir'.pending.kind = "StatusChanged")
            => ir'.pending.old = sessions[ir'.pending.id].status]_vars

\* C31: a session that a step adds to the session map (the pass, the
\* start-up discovery or the handler) has status Running or Initializing.
C31_NewSessionRunningOrInitializing ==
    [][\A id \in DOMAIN sessions' \ DOMAIN sessions :
          sessions'[id].status \in {"Running", "Initializing"}]_vars

\* C32: for a session the pass found in the map, the probe taken when the
\* session is processed decides, not the snapshot taken when the pass began:
\* a Running session whose lock the snapshot saw held and the probe sees
\* released is gone when the pass ends, and an Initializing session whose lock
\* the snapshot saw free and the probe sees held is Running when it ends.
C32_ProbeOverridesSnapshot ==
    ir.pc = "done" =>
        \A id \in DOMAIN ir.seen \cap DOMAIN ir.start_map :
            LET obs == ir.seen[id]
                snapshot_says_alive ==
                    SnapshotSaysAlive(ir.lock_snapshot,
                                      NormalizePath(ir.start_map[id].project_path))
            IN  /\ (obs.known /\ obs.status = "Running"
                     /\ snapshot_says_alive /\ obs.probe # "Alive")
                      => id \notin DOMAIN sessions
                /\ (obs.known /\ obs.status = "Initializing"
                     /\ ~snapshot_says_alive /\ obs.probe = "Alive")
                      => (id \in DOMAIN sessions /\ sessions[id].status = "Running")

\* A pass has ended in which the lock of a Running session was released
\* between the snapshot and the probe.
C32_Witness ==
    /\ ir.pc = "done"
    /\ \E id \in DOMAIN ir.seen \cap DOMAIN ir.start_map :
         /\ ir.seen[id].known /\ ir.seen[id].status = "Running"
         /\ SnapshotSaysAlive(ir.lock_snapshot,
                              NormalizePath(ir.start_map[id].project_path))
         /\ ir.seen[id].probe # "Alive"

\* C33: while the watcher is installed, a file-system change and the callback
\* it triggers (log written, lock file created or removed, notify error) can
\* always take place: the callback waits neither for the session map or the
\* status cache nor for room in the watcher's channel.
C33_CallbackNeverWaits ==
    (watchOn /\ budget # 0) =>
        /\ \A dir \in DOMAIN logs : ENABLED LogWrite(dir)
        /\ \A f \in DOMAIN lockFiles : ENABLED LockChange(f)
        /\ ENABLED WatchFault

\* The watcher's channel is full and a pass holds the session-map write lock
\* while the file system can still change.
C33_Witness ==
    /\ watchOn /\ budget # 0
    /\ mapLock /\ ir.pc \notin {"idle", "done"}
    /\ ~HasRoom(watchQ)

C35_MessagesOldestFirst ==
    (call.fn = "get_session_detail" /\ call.pc = "done") =>
        \A i, j \in DOMAIN call.messages :
            i < j => call.messages[i].timestamp <= call.messages[j].timestamp

\* C36: a list-active-sessions command that is running its pass after
\* take_event_stream eventually returns and releases the session-map and
\* monitor locks, whatever earlier passes have emitted.
C36_PassEventuallyReturns ==
    (main.pc = "forward" /\ ir.pc # "idle")
        ~> (ir.pc = "idle" /\ ~mapLock /\ monLock.writer = "none")

\* C37: refresh_session calls that run at the same time for one session
\* whose transcript changed since its status was cached emit one
\* StatusChanged for that change: the monitor's channel never holds two
\* StatusChanged events with the same session, old status and new status.
C37_OneEventPerChange ==
    \A i, j \in DOMAIN chan[selfChan] :
        LET a == chan[selfChan][i]
            b == chan[selfChan][j]
        IN  (i < j /\ a.kind = "StatusChanged" /\ a.old # "Unknown") => a # b

\* C38: once stop() has returned on a monitor whose event handler was
\* spawned, the session map and the status cache are empty and no step
\* emits a monitor event.
C38_StoppedStaysQuiet ==
    (h.pc # "off" /\ ~running /\ monLock.writer # "stop") =>
        /\ sessions = EmptyMap
        /\ status_cache = EmptyMap
        /\ lastSent = NoSend

\* C39: the session_id the watcher puts in SessionEnded is the key of the
\* session in the map: when the handler applies the SessionEnded of a removed
\* lock file, the session of that lock file's workspace leaves the map.
C39_LockRemovalRemovesSession ==
    [][(h.pc = "remove" /\ h'.pc = "uncache" /\ h.ev.session_id \in DOMAIN lockWs) =>
          \A id \in DOMAIN sessions :
              NormalizePath(sessions[id].project_path)
                  = NormalizePath(lockWs[h.ev.session_id])
              => /\ h.ev.session_id = id
                 /\ id \notin DOMAIN sessions']_vars

\* C40: when a lock file that lists a workspace is held by a live process,
\* scan_all_locks maps the workspace to alive and
\* verify_project_lock_realtime answers alive for it, whatever other lock
\* files list the same workspace and whatever the order of the listing.
C40_AliveIfAnyLockHeld ==
    (call.fn = "scan_all_locks" /\ call.pc = "done") =>
        \A f \in DOMAIN lockFiles :
            IsLockBusy(f) =>
                LET key == NormalizePath(lockWs[f])
                IN  /\ SnapshotSaysAlive(call.lock_map, key)
                    /\ NormalizePath(call.project_path) = key => call.verified

====
